---- MODULE Spec2Model ----
(***************************************************************************)
(* Verification model of the tskv non-blocking TCP I/O core:               *)
(*   SimpleBuffer   (tskv.common.buffer)                                   *)
(*   Channel, ChannelIO, EchoProtocol, ChannelPool (tskv.net.channel)      *)
(*   Reactor        (tskv.net.reactor)                                     *)
(* together with the part of the kernel the reactor talks to (sockets,     *)
(* the epoll ready list, the eventfd, the signalfd) and the remote peers.  *)
(***************************************************************************)
EXTENDS Integers, Sequences, FiniteSets, TLC

(***************************************************************************)
(* Bounds.  TX_BUF_SIZE, RX_BUF_SIZE and CHUNK_SIZE are the program's      *)
(* 4096 / 4096 / 256 scaled down; the others bound the environment.        *)
(***************************************************************************)
TX_BUF_SIZE == 2
RX_BUF_SIZE == 2
CHUNK_SIZE == 2
MaxFd == 2
MaxBytes == 2
SndCap == 1
MaxConns == 2
MaxConnFail == 1
MaxAcceptErr == 1
MaxSignals == 2
LongBytes == 4
MaxPoolFd == 4
BufCap == 3
MaxArg == 4
MaxWritten == 5

NoFd == -1

Min(a, b) == IF a <= b THEN a ELSE b

ClientFds == 1..MaxFd
\* the descriptors a ChannelPool may be asked about
PoolFds == 1..MaxPoolFd
WakeupFd == MaxFd + 1
SignalFd == MaxFd + 2
ListenFd == MaxFd + 3

(***************************************************************************)
(* SimpleBuffer<BUFSIZE>: buf_ is the byte array (1-based here), offset_   *)
(* the number of live bytes, which sit at buf_[1..offset_].                *)
(***************************************************************************)
SimpleBuffer(BUFSIZE) == [buf_ |-> [i \in 1..BUFSIZE |-> 0], offset_ |-> 0]

capacity(b) == Len(b.buf_)

used_space(b) == b.offset_

free_space(b) == capacity(b) - b.offset_

empty(b) == b.offset_ = 0

full(b) == b.offset_ = capacity(b)

clear(b) == [b EXCEPT !.offset_ = 0]

\* memcpy(buf_ + at, src, count)
memcpy_in(b, at, src, count) ==
  [b EXCEPT !.buf_ = [i \in 1..capacity(b) |->
                        IF i > at /\ i <= at + count THEN src[i - at] ELSE b.buf_[i]]]

write_from_NoClamp(b, src) ==
  LET count == Len(src)
      b1 == memcpy_in(b, b.offset_, src, count)
  IN [b |-> [b1 EXCEPT !.offset_ = b.offset_ + count], n |-> count]

\* returns the buffer after the call and the number of bytes written
write_from(b, src) ==
  LET count == Min(Len(src), free_space(b))
      b1 == memcpy_in(b, b.offset_, src, count)
  IN [b |-> [b1 EXCEPT !.offset_ = b.offset_ + count], n |-> count]

writable_span_Whole(b, max_len) == Min(max_len, capacity(b))

\* length of the span handed out at buf_ + offset_
writable_span(b, max_len) == Min(max_len, free_space(b))

commit_NoClamp(b, n) == [b EXCEPT !.offset_ = b.offset_ + n]

commit(b, n) ==
  LET m == Min(n, free_space(b))
  IN [b EXCEPT !.offset_ = b.offset_ + m]

readable_span(b, max_len) == SubSeq(b.buf_, 1, Min(max_len, used_space(b)))

consume_OneLess(b, n) ==
  IF n = 0 THEN b
  ELSE LET m == Min(n, used_space(b))
           leftover == b.offset_ - m
       IN [buf_ |-> [i \in 1..capacity(b) |->
                       IF i <= leftover THEN b.buf_[i + m] ELSE b.buf_[i]],
           offset_ |-> IF b.offset_ = 0 THEN 0 ELSE b.offset_ - 1]

consume_NoMove(b, n) ==
  [b EXCEPT !.offset_ = b.offset_ - Min(n, used_space(b))]

consume(b, n) ==
  IF n = 0 THEN b
  ELSE LET m == Min(n, used_space(b))
           leftover == b.offset_ - m
       IN [buf_ |-> [i \in 1..capacity(b) |->
                       IF i <= leftover THEN b.buf_[i + m] ELSE b.buf_[i]],
           offset_ |-> b.offset_ - m]

read_into_NoConsume(b, dstlen) ==
  LET count == Min(dstlen, used_space(b))
  IN [b |-> b, out |-> SubSeq(b.buf_, 1, count), n |-> count]

\* read_into(dst) with |dst| = dstlen: the bytes copied out and the buffer after
read_into(b, dstlen) ==
  LET count == Min(dstlen, used_space(b))
  IN [b |-> consume(b, count), out |-> SubSeq(b.buf_, 1, count), n |-> count]

(***************************************************************************)
(* Channel<Proto>                                                          *)
(***************************************************************************)
SocketState == {"Running", "Draining", "Aborting", "Closed"}

EventFlags == {"EPOLLIN", "EPOLLOUT", "EPOLLERR", "EPOLLHUP", "EPOLLRDHUP"}

\* a default-constructed channel slot
Channel ==
  [fd_ |-> NoFd,
   last_events_mask_ |-> {},
   socket_state_ |-> "Closed",
   tx_buf_ |-> SimpleBuffer(TX_BUF_SIZE),
   rx_buf_ |-> SimpleBuffer(RX_BUF_SIZE)]

can_read_IgnoresFull(ch) == ch.socket_state_ = "Running"

can_read(ch) == ch.socket_state_ = "Running" /\ ~full(ch.rx_buf_)

can_write(ch) ==
  LET valid_state == ch.socket_state_ = "Running" \/ ch.socket_state_ = "Draining"
  IN valid_state /\ ~empty(ch.tx_buf_)

rx_span(ch) == readable_span(ch.rx_buf_, capacity(ch.rx_buf_))

rx_consume(ch, nbytes) == [ch EXCEPT !.rx_buf_ = consume(ch.rx_buf_, nbytes)]

tx_send_NoAbortingCheck(ch, data) ==
  IF ch.socket_state_ = "Closed"
  THEN [ch |-> ch, n |-> 0, result |-> "Forbidden"]
  ELSE LET w == write_from(ch.tx_buf_, data)
       IN [ch |-> [ch EXCEPT !.tx_buf_ = w.b],
           n |-> w.n,
           result |-> IF w.n = Len(data) THEN "Full" ELSE "Partial"]

\* returns the channel after the call, bytes_queued and the SendResult
tx_send(ch, data) ==
  IF ch.socket_state_ = "Closed" \/ ch.socket_state_ = "Aborting"
  THEN [ch |-> ch, n |-> 0, result |-> "Forbidden"]
  ELSE LET w == write_from(ch.tx_buf_, data)
       IN [ch |-> [ch EXCEPT !.tx_buf_ = w.b],
           n |-> w.n,
           result |-> IF w.n = Len(data) THEN "Full" ELSE "Partial"]

attach(ch, client_fd) ==
  [ch EXCEPT !.fd_ = client_fd,
             !.tx_buf_ = clear(ch.tx_buf_),
             !.rx_buf_ = clear(ch.rx_buf_),
             !.socket_state_ = "Running"]

detach_KeepsBuffers(ch) ==
  [ch EXCEPT !.fd_ = NoFd, !.socket_state_ = "Closed"]

detach(ch) ==
  [ch EXCEPT !.fd_ = NoFd,
             !.tx_buf_ = clear(ch.tx_buf_),
             !.rx_buf_ = clear(ch.rx_buf_),
             !.socket_state_ = "Closed"]

should_close_IgnoresTx(ch) ==
  ch.socket_state_ = "Aborting" \/ ch.socket_state_ = "Draining"

should_close(ch) ==
  IF ch.socket_state_ = "Aborting" THEN TRUE
  ELSE IF ch.socket_state_ = "Draining" /\ empty(ch.tx_buf_) THEN TRUE
  ELSE FALSE

desired_events(ch) ==
  (IF can_read(ch) THEN {"EPOLLIN"} ELSE {}) \cup
  (IF can_write(ch) THEN {"EPOLLOUT"} ELSE {})

(***************************************************************************)
(* EchoProtocol::on_read: queue what rx_span() shows, consume what was     *)
(* queued.  The result is the channel after the hook.                      *)
(***************************************************************************)
\* on_read that leaves in RX what it has queued in TX
EchoProtocol_on_read_NoConsume(ch) == tx_send(ch, rx_span(ch)).ch

EchoProtocol_on_read(ch) ==
  LET rx_bytes == rx_span(ch)
      r == tx_send(ch, rx_bytes)
  IN IF r.n > 0 THEN rx_consume(r.ch, r.n) ELSE r.ch

\* try_fill_rx_buffer, recv_rc > 0: the kernel filled the writable span
fill_commit(ch, data, recv_rc) ==
  [ch EXCEPT !.rx_buf_ = commit(memcpy_in(@, @.offset_, data, recv_rc), recv_rc)]

\* try_fill_rx_buffer, recv_rc == 0
fill_eof(ch) == [ch EXCEPT !.socket_state_ = "Draining"]

\* try_flush_tx_buffer, send_rc >= 0
flush_consume(ch, send_rc) == [ch EXCEPT !.tx_buf_ = consume(@, send_rc)]

\* the channel half of begin_shutdown (the ::shutdown call is k_shutdown below)
begin_shutdown(ch) ==
  IF ch.socket_state_ = "Running"
  THEN [ch EXCEPT !.socket_state_ = "Draining"]
  ELSE ch

(***************************************************************************)
(* ChannelPool<Proto>.  A channel pointer is <<chunk, index>>; a chunk's   *)
(* free_stack_[0..free_top_-1] is the sequence free_stack_[c].             *)
(***************************************************************************)
\* chunks are allocated only when every chunk is full
MaxChunks == (MaxPoolFd \div CHUNK_SIZE) + 1

SlotIds == (1..MaxChunks) \X (0..(CHUNK_SIZE - 1))

Nullptr == <<0, 0>>

NoHandle == [chunk |-> 0, channel |-> Nullptr]

ChannelPool ==
  [slots_ |-> [s \in SlotIds |-> Channel],
   nchunks |-> 0,
   free_stack_ |-> [c \in 1..MaxChunks |-> <<>>],
   nonfull_chunks_ |-> <<>>,
   active_ |-> [fd \in PoolFds |-> NoHandle]]

allocate_new_chunk(P) ==
  LET c == P.nchunks + 1
  IN [P EXCEPT !.nchunks = c,
               !.free_stack_[c] = [i \in 1..CHUNK_SIZE |-> i - 1],
               !.nonfull_chunks_ = Append(@, c)]

chunk_full(P, c) == Len(P.free_stack_[c]) = 0

chunk_acquire_NoPop(P, c) ==
  [P |-> P, channel |-> <<c, P.free_stack_[c][Len(P.free_stack_[c])]>>]

chunk_acquire(P, c) ==
  LET top == Len(P.free_stack_[c])
      next_free_idx == P.free_stack_[c][top]
  IN [P |-> [P EXCEPT !.free_stack_[c] = SubSeq(@, 1, top - 1)],
      channel |-> <<c, next_free_idx>>]

chunk_release(P, c, cptr) ==
  [P EXCEPT !.free_stack_[c] = Append(@, cptr[2])]

pool_lookup(P, fd) ==
  IF fd \in PoolFds /\ P.active_[fd] # NoHandle
  THEN P.active_[fd].channel
  ELSE Nullptr

pool_empty(P) == \A fd \in PoolFds : P.active_[fd] = NoHandle

pool_acquire(P, fd) ==
  LET P1 == IF P.nonfull_chunks_ = <<>> THEN allocate_new_chunk(P) ELSE P
      chunk == P1.nonfull_chunks_[Len(P1.nonfull_chunks_)]
      a == chunk_acquire(P1, chunk)
  IN IF a.P.active_[fd] # NoHandle
     THEN [P |-> chunk_release(a.P, chunk, a.channel), channel |-> Nullptr]
     ELSE LET P3 == [a.P EXCEPT !.active_[fd] = [chunk |-> chunk, channel |-> a.channel]]
          IN [P |-> IF chunk_full(P3, chunk)
                    THEN [P3 EXCEPT !.nonfull_chunks_ = SubSeq(@, 1, Len(@) - 1)]
                    ELSE P3,
              channel |-> a.channel]

\* release that never puts a chunk back on the non-full list
pool_release_NoPushBack(P, fd) ==
  IF fd \notin PoolFds \/ P.active_[fd] = NoHandle
  THEN P
  ELSE LET chunk == P.active_[fd].chunk
           channel == P.active_[fd].channel
           P1 == chunk_release(P, chunk, channel)
       IN [P1 EXCEPT !.active_[fd] = NoHandle]

pool_release(P, fd) ==
  IF fd \notin PoolFds \/ P.active_[fd] = NoHandle
  THEN P
  ELSE LET chunk == P.active_[fd].chunk
           channel == P.active_[fd].channel
           was_full == chunk_full(P, chunk)
           P1 == chunk_release(P, chunk, channel)
           P2 == IF was_full THEN [P1 EXCEPT !.nonfull_chunks_ = Append(@, chunk)] ELSE P1
       IN [P2 EXCEPT !.active_[fd] = NoHandle]

\* the fds for_each visits
ActiveFds(P) == {fd \in PoolFds : P.active_[fd] # NoHandle}

(***************************************************************************)
(* The kernel: one socket per client descriptor, the listener backlog, the *)
(* epoll interest and ready lists, the eventfd counter and the signalfd.   *)
(* A peer writes the bytes 1, 2, ..., pw in this order.                    *)
(***************************************************************************)
NoErr == "0"

\* the errors a failing connection leaves in SO_ERROR: one with a counter of
\* its own and one that falls to the default of the switch
SockErrnos == {"ECONNRESET", "EHOSTUNREACH"}

\* the accept4 failures other than EAGAIN: the three with a counter of their
\* own and one for the default.  EMFILE is the limit of the whole process, which
\* descriptors other than the clients' count against too
AcceptErrnos == {"EMFILE", "ENFILE", "ENOBUFS", "ECONNABORTED"}

\* SIGINT and SIGTERM are both in the signalfd mask and on_signal_event never
\* looks at which one it read: one stands for both
Signals == {"SIGTERM"}

ClosedSock ==
  [open |-> FALSE, pw |-> 0, inq |-> <<>>, fin |-> FALSE, outn |-> 0,
   so_error |-> NoErr, dead |-> FALSE, shut_rd |-> FALSE, shut_wr |-> FALSE,
   rcvd |-> <<>>, sent |-> <<>>]

NoInterest == [reg |-> FALSE, events |-> {}]

Kernel ==
  [sock |-> [fd \in ClientFds |-> ClosedSock],
   interest |-> [fd \in ClientFds |-> NoInterest],
   listen_open |-> TRUE,
   listen_reg |-> FALSE,
   ready |-> {},
   backlog |-> 0,
   nconns |-> 0,
   nfail |-> 0,
   nacceptErr |-> 0,
   accept_errno |-> "none",
   nwaitfail |-> 0,
   wait_errno |-> "none",
   wakeup_cnt |-> 0,
   sig_pending |-> {},
   nsignals |-> 0,
   total_rcvd |-> 0,
   total_sent |-> 0]

\* what poll() reports for a TCP socket
sock_poll(s) ==
  (IF s.inq # <<>> \/ s.fin \/ s.shut_rd THEN {"EPOLLIN"} ELSE {}) \cup
  (IF s.fin \/ s.shut_rd THEN {"EPOLLRDHUP"} ELSE {}) \cup
  (IF s.shut_wr \/ s.outn < SndCap THEN {"EPOLLOUT"} ELSE {}) \cup
  (IF s.so_error # NoErr THEN {"EPOLLERR"} ELSE {}) \cup
  (IF s.shut_rd /\ s.shut_wr THEN {"EPOLLHUP"} ELSE {})

\* the events epoll reports for a registered client descriptor
revents(k, fd) ==
  sock_poll(k.sock[fd]) \cap (k.interest[fd].events \cup {"EPOLLERR", "EPOLLHUP"})

\* a wake-up of the socket's wait queue with the given key puts it on the ready list
k_wake(k, fd, key) ==
  IF k.interest[fd].reg /\ key \cap (k.interest[fd].events \cup {"EPOLLERR", "EPOLLHUP"}) # {}
  THEN [k EXCEPT !.ready = @ \cup {fd}]
  ELSE k

epoll_ctl_add(k, fd, events) ==
  LET k1 == [k EXCEPT !.interest[fd] = [reg |-> TRUE, events |-> events]]
  IN IF revents(k1, fd) # {} THEN [k1 EXCEPT !.ready = @ \cup {fd}] ELSE k1

epoll_ctl_mod(k, fd, events) ==
  IF fd \in ClientFds /\ k.interest[fd].reg
  THEN epoll_ctl_add(k, fd, events)
  ELSE k

epoll_ctl_del(k, fd) ==
  IF fd \in ClientFds
  THEN [k EXCEPT !.interest[fd] = NoInterest, !.ready = @ \ {fd}]
  ELSE k

k_close(k, fd) ==
  IF fd \in ClientFds
  THEN [k EXCEPT !.sock[fd] = ClosedSock, !.interest[fd] = NoInterest, !.ready = @ \ {fd}]
  ELSE k

k_shutdown(k, fd, how) ==
  IF fd \in ClientFds /\ k.sock[fd].open
  THEN LET k1 == [k EXCEPT !.sock[fd].shut_rd = TRUE,
                           !.sock[fd].shut_wr = (@ \/ how = "SHUT_RDWR")]
       IN k_wake(k1, fd, EventFlags)
  ELSE k

\* getsockopt(fd, SOL_SOCKET, SO_ERROR): reads and clears the pending error
k_getsockopt_so_error(k, fd) ==
  IF fd \in ClientFds /\ k.sock[fd].open
  THEN [k |-> [k EXCEPT !.sock[fd].so_error = NoErr], opc |-> 0, err |-> k.sock[fd].so_error]
  ELSE [k |-> k, opc |-> -1, err |-> NoErr]

\* recv(fd, span, len, 0) on a non-blocking socket
k_recv(k, fd, len) ==
  LET s == k.sock[fd]
      n == Min(len, Len(s.inq))
  IN IF s.inq # <<>>
     THEN [k |-> [k EXCEPT !.sock[fd].inq = SubSeq(@, n + 1, Len(@)),
                           !.sock[fd].rcvd = @ \o SubSeq(s.inq, 1, n),
                           !.total_rcvd = @ + n],
           rc |-> n, data |-> SubSeq(s.inq, 1, n), errno |-> NoErr]
     ELSE IF s.so_error # NoErr
     THEN [k |-> [k EXCEPT !.sock[fd].so_error = NoErr],
           rc |-> -1, data |-> <<>>, errno |-> s.so_error]
     ELSE IF s.fin \/ s.shut_rd
     THEN [k |-> k, rc |-> 0, data |-> <<>>, errno |-> NoErr]
     ELSE [k |-> k, rc |-> -1, data |-> <<>>, errno |-> "EAGAIN"]

\* send(fd, data, len, 0) on a non-blocking socket (SIGPIPE is ignored)
k_send(k, fd, data) ==
  LET s == k.sock[fd]
      n == Min(Len(data), SndCap - s.outn)
  IN IF s.so_error # NoErr \/ s.shut_wr
     THEN [k |-> [k EXCEPT !.sock[fd].so_error = NoErr],
           rc |-> -1, errno |-> IF s.so_error # NoErr THEN s.so_error ELSE "EPIPE"]
     ELSE IF s.outn < SndCap
     THEN [k |-> [k EXCEPT !.sock[fd].outn = @ + n,
                           !.sock[fd].sent = @ \o SubSeq(data, 1, n),
                           !.total_sent = @ + n],
           rc |-> n, errno |-> NoErr]
     ELSE [k |-> k, rc |-> -1, errno |-> "EAGAIN"]

\* what one epoll_wait hands back: every descriptor on the ready list that
\* still has something to report; wake-up and signal descriptors are
\* level-triggered
harvest(k) ==
  {[fd |-> fd, events |-> revents(k, fd)] :
      fd \in {f \in ClientFds \cap k.ready : revents(k, f) # {}}}
  \cup (IF ListenFd \in k.ready /\ k.listen_reg /\ k.backlog > 0
        THEN {[fd |-> ListenFd, events |-> {"EPOLLIN"}]} ELSE {})
  \cup (IF k.wakeup_cnt > 0 THEN {[fd |-> WakeupFd, events |-> {"EPOLLIN"}]} ELSE {})
  \cup (IF k.sig_pending # {} THEN {[fd |-> SignalFd, events |-> {"EPOLLIN"}]} ELSE {})

(***************************************************************************)
(* Metrics: the net.* counters the channel and the reactor write.          *)
(***************************************************************************)
CounterKeys ==
  {"net.bytes_received", "net.bytes_sent",
   "net.socket_error.total", "net.socket_error.econnreset",
   "net.socket_error.etimedout", "net.socket_error.epipe",
   "net.socket_error.enetdown", "net.socket_error.other",
   "net.accept_error.emfile", "net.accept_error.enfile",
   "net.accept_error.enobufs", "net.accept_error.other"}

Metrics == [K \in CounterKeys |-> 0]

add_counter(m, K, n) == [m EXCEPT ![K] = @ + n]

inc_counter(m, K) == add_counter(m, K, 1)

\* the switch (err) of handle_error_event without case EPIPE
socket_error_key_NoEpipe(err) ==
  CASE err = "ECONNRESET" -> "net.socket_error.econnreset"
    [] err = "ETIMEDOUT" -> "net.socket_error.etimedout"
    [] err = "ENETDOWN" -> "net.socket_error.enetdown"
    [] OTHER -> "net.socket_error.other"

\* the switch (err) of handle_error_event
socket_error_key(err) ==
  CASE err = "ECONNRESET" -> "net.socket_error.econnreset"
    [] err = "ETIMEDOUT" -> "net.socket_error.etimedout"
    [] err = "EPIPE" -> "net.socket_error.epipe"
    [] err = "ENETDOWN" -> "net.socket_error.enetdown"
    [] OTHER -> "net.socket_error.other"

\* the switch (errno) of on_listener_event
accept_error_key_EnfileAsOther(errno) ==
  CASE errno = "EMFILE" -> "net.accept_error.emfile"
    [] errno = "ENOBUFS" -> "net.accept_error.enobufs"
    [] OTHER -> "net.accept_error.other"

accept_error_key(errno) ==
  CASE errno = "EMFILE" -> "net.accept_error.emfile"
    [] errno = "ENFILE" -> "net.accept_error.enfile"
    [] errno = "ENOBUFS" -> "net.accept_error.enobufs"
    [] OTHER -> "net.accept_error.other"

(***************************************************************************)
(* Reactor<Proto>.  The operators below work on a record w of everything a *)
(* handler can touch: pool_, reactor (listener_fd_, shutting_down_), kern, *)
(* counters and hooks (how often on_error / on_close have been invoked).   *)
(***************************************************************************)
ReactorFields == [listener_fd_ |-> NoFd, shutting_down_ |-> FALSE]

Hooks == [on_error |-> 0, on_close |-> 0]

\* handle_error_event without the call of the protocol's hook
handle_error_event_NoHook(w, s) ==
  LET fd == w.pool_.slots_[s].fd_
      w1 == [w EXCEPT !.pool_.slots_[s].socket_state_ = "Aborting"]
      g == k_getsockopt_so_error(w1.kern, fd)
      w2 == [w1 EXCEPT !.kern = k_shutdown(g.k, fd, "SHUT_RDWR")]
  IN IF g.opc # 0 \/ g.err = NoErr
     THEN w2
     ELSE [w2 EXCEPT !.counters = inc_counter(inc_counter(@, "net.socket_error.total"),
                                               socket_error_key(g.err))]

handle_error_event(w, s) ==
  LET fd == w.pool_.slots_[s].fd_
      w1 == [w EXCEPT !.pool_.slots_[s].socket_state_ = "Aborting"]
      g == k_getsockopt_so_error(w1.kern, fd)
      w2 == [w1 EXCEPT !.kern = k_shutdown(g.k, fd, "SHUT_RDWR")]
  IN IF g.opc # 0 \/ g.err = NoErr
     THEN w2
     ELSE [w2 EXCEPT !.counters = inc_counter(inc_counter(@, "net.socket_error.total"),
                                               socket_error_key(g.err)),
                     !.hooks.on_error = @ + 1]

\* close_listener that leaves the listener registered and open
close_listener_KeepsListening(w) == w

close_listener(w) ==
  IF w.reactor.listener_fd_ # NoFd
  THEN [w EXCEPT !.kern.listen_reg = FALSE,
                 !.kern.ready = @ \ {ListenFd},
                 !.kern.listen_open = FALSE,
                 !.kern.backlog = 0,
                 !.reactor.listener_fd_ = NoFd]
  ELSE w

\* the statements of close_channel, one by one
notify_close(w, s) == [w EXCEPT !.hooks.on_close = @ + 1]

close_epoll_del(w, client_fd) == [w EXCEPT !.kern = epoll_ctl_del(@, client_fd)]

close_detach(w, s) == [w EXCEPT !.pool_.slots_[s] = detach(@)]

\* close_channel without the release of the pool entry
close_release_Skipped(w, client_fd) == w

close_release(w, client_fd) == [w EXCEPT !.pool_ = pool_release(@, client_fd)]

close_fd(w, client_fd) == [w EXCEPT !.kern = k_close(@, client_fd)]

close_channel(w, s) ==
  LET w1 == notify_close(w, s)
      client_fd == w1.pool_.slots_[s].fd_
      w2 == close_epoll_del(w1, client_fd)
      w3 == close_detach(w2, s)
      w4 == close_release(w3, client_fd)
  IN close_fd(w4, client_fd)

\* the orders in which for_each may walk the fd -> handle map
Orders == {o \in [1..MaxFd -> ClientFds] : \A i, j \in 1..MaxFd : i # j => o[i] # o[j]}

RECURSIVE close_all(_, _)
close_all(w, chans) ==
  IF chans = <<>> THEN w
  ELSE close_all(close_channel(w, Head(chans)), Tail(chans))

sweep_closing_channels(w, order) ==
  LET closing(fd) == /\ fd \in ActiveFds(w.pool_)
                     /\ should_close(w.pool_.slots_[w.pool_.active_[fd].channel])
      fds == SelectSeq(order, closing)
      channels_to_close == [i \in 1..Len(fds) |-> w.pool_.active_[fds[i]].channel]
  IN close_all(w, channels_to_close)

RECURSIVE begin_shutdown_all(_, _)
begin_shutdown_all(w, fds) ==
  IF fds = <<>> THEN w
  ELSE LET s == w.pool_.active_[Head(fds)].channel
           ch == w.pool_.slots_[s]
           w1 == IF ch.socket_state_ = "Running"
                 THEN [w EXCEPT !.pool_.slots_[s] = begin_shutdown(ch),
                                !.kern = k_shutdown(@, ch.fd_, "SHUT_RD")]
                 ELSE w
       IN begin_shutdown_all(w1, Tail(fds))

\* request_shutdown without its step 4, the sweep
request_shutdown_NoSweep(w, order) ==
  IF w.reactor.shutting_down_
  THEN w
  ELSE LET w1 == [w EXCEPT !.reactor.shutting_down_ = TRUE]
           w2 == close_listener(w1)
           live(fd) == fd \in ActiveFds(w2.pool_)
           w3 == begin_shutdown_all(w2, SelectSeq(order, live))
       IN [w3 EXCEPT !.kern.wakeup_cnt = @ + 1]

request_shutdown_NoGuard(w, order) ==
  LET w1 == [w EXCEPT !.reactor.shutting_down_ = TRUE]
      w2 == close_listener(w1)
      live(fd) == fd \in ActiveFds(w2.pool_)
      w3 == begin_shutdown_all(w2, SelectSeq(order, live))
      w4 == [w3 EXCEPT !.kern.wakeup_cnt = @ + 1]
  IN sweep_closing_channels(w4, order)

request_shutdown(w, order) ==
  IF w.reactor.shutting_down_
  THEN w
  ELSE LET w1 == [w EXCEPT !.reactor.shutting_down_ = TRUE]
           w2 == close_listener(w1)
           live(fd) == fd \in ActiveFds(w2.pool_)
           w3 == begin_shutdown_all(w2, SelectSeq(order, live))
           w4 == [w3 EXCEPT !.kern.wakeup_cnt = @ + 1]
       IN sweep_closing_channels(w4, order)

run_returns_PoolOnly(r, P) == pool_empty(P)

\* run(): the test at the top of the loop
run_returns(r, P) == r.shutting_down_ /\ pool_empty(P)

(***************************************************************************)
(* The loop thread: where it is (pc), the rest of the batch epoll_wait     *)
(* returned, and the locals of on_channel_event / handle_events.           *)
(* would_block says that a send of the try_flush_tx_buffer call in         *)
(* progress has returned EAGAIN.                                           *)
(***************************************************************************)
IdleLoop(pc, batch) ==
  [pc |-> pc, batch |-> batch, channel |-> Nullptr, client_fd |-> NoFd,
   event_mask |-> {}, entered |-> FALSE, nrecv |-> 0,
   rx_blocked |-> FALSE, proto_consumed |-> FALSE, nsent |-> 0,
   would_block |-> FALSE]

NoCall == [data |-> <<>>, n |-> 0, result |-> "None"]

handle_events_tail_AnyState(w, s, event_mask) ==
  IF event_mask \cap {"EPOLLHUP", "EPOLLRDHUP"} # {}
  THEN [w EXCEPT !.pool_.slots_[s].socket_state_ = "Draining"]
  ELSE w

\* the hang-up rule applied whatever the mask
handle_events_tail_AnyMask(w, s, event_mask) ==
  IF w.pool_.slots_[s].socket_state_ = "Running"
  THEN [w EXCEPT !.pool_.slots_[s].socket_state_ = "Draining"]
  ELSE w

\* handle_events, after the drain loop and the write-only flush
handle_events_tail(w, s, event_mask) ==
  IF event_mask \cap {"EPOLLHUP", "EPOLLRDHUP"} # {}
     /\ w.pool_.slots_[s].socket_state_ = "Running"
  THEN [w EXCEPT !.pool_.slots_[s].socket_state_ = "Draining"]
  ELSE w

\* on_channel_event that re-registers the channel for the fixed bits only
on_channel_event_tail_BitsOnly(w, s, client_fd) ==
  IF should_close(w.pool_.slots_[s])
  THEN close_channel(w, s)
  ELSE [w EXCEPT !.kern = epoll_ctl_mod(@, client_fd, {"EPOLLET", "EPOLLRDHUP"})]

\* on_channel_event that re-registers the channel whatever its state
on_channel_event_tail_NoClose(w, s, client_fd) ==
  [w EXCEPT !.kern = epoll_ctl_mod(@, client_fd,
                       desired_events(w.pool_.slots_[s]) \cup {"EPOLLET", "EPOLLRDHUP"})]

\* on_channel_event, after handle_events returned
on_channel_event_tail(w, s, client_fd) ==
  IF should_close(w.pool_.slots_[s])
  THEN close_channel(w, s)
  ELSE [w EXCEPT !.kern = epoll_ctl_mod(@, client_fd,
                    desired_events(w.pool_.slots_[s]) \cup {"EPOLLET", "EPOLLRDHUP"})]

\* the drain loop and the write-only flush are over: on to the hang-up rule
FinishEvent(w, l) == [w |-> w, loop |-> [l EXCEPT !.pc = "tail"]]

\* handle_events: if (event_mask & EPOLLOUT) { nsent = try_flush_tx_buffer(); ... }
EnterOutFlush(w, l) ==
  IF ~can_write(w.pool_.slots_[l.channel])
  THEN FinishEvent([w EXCEPT !.counters = add_counter(@, "net.bytes_sent", 0)], l)
  ELSE [w |-> w, loop |-> [l EXCEPT !.pc = "oflush", !.nsent = 0]]

AfterDrain(w, l) ==
  IF "EPOLLOUT" \in l.event_mask THEN EnterOutFlush(w, l) ELSE FinishEvent(w, l)

\* drain loop, step 4
DrainStep4(w, l) ==
  IF l.rx_blocked /\ ~l.proto_consumed
  THEN AfterDrain(w, l)
  ELSE [w |-> w,
        loop |-> [l EXCEPT !.pc = "fill", !.entered = FALSE, !.nrecv = 0,
                           !.rx_blocked = FALSE, !.proto_consumed = FALSE]]

\* drain loop, from the return of try_fill_rx_buffer to the flush of step 3
AfterFill(w, l, nrecv) ==
  LET s == l.channel
      rx_blocked == nrecv = 0
      w1 == IF ~rx_blocked
            THEN [w EXCEPT !.counters = add_counter(@, "net.bytes_received", nrecv)]
            ELSE w
      ch == w1.pool_.slots_[s]
      rx_used_before == used_space(ch.rx_buf_)
      ch2 == IF ~empty(ch.rx_buf_) THEN EchoProtocol_on_read(ch) ELSE ch
      proto_consumed == used_space(ch2.rx_buf_) < rx_used_before
      w2 == [w1 EXCEPT !.pool_.slots_[s] = ch2]
      l2 == [l EXCEPT !.rx_blocked = rx_blocked, !.proto_consumed = proto_consumed,
                      !.entered = FALSE, !.nrecv = 0]
  IN IF can_write(ch2)
     THEN [w |-> w2, loop |-> [l2 EXCEPT !.pc = "dflush"]]
     ELSE DrainStep4(w2, l2)

\* one recv of try_fill_rx_buffer (or its return without one)
try_fill_rx_buffer_step(w, l) ==
  LET s == l.channel
      ch == w.pool_.slots_[s]
      stop == IF l.entered THEN full(ch.rx_buf_) ELSE ~can_read(ch)
      r == k_recv(w.kern, ch.fd_, writable_span(ch.rx_buf_, capacity(ch.rx_buf_)))
      wk == [w EXCEPT !.kern = r.k]
  IN IF stop THEN AfterFill(w, l, l.nrecv)
     ELSE IF r.rc > 0
     THEN [w |-> [wk EXCEPT !.pool_.slots_[s] = fill_commit(ch, r.data, r.rc)],
           loop |-> [l EXCEPT !.entered = TRUE, !.nrecv = @ + r.rc]]
     ELSE IF r.rc = 0
     THEN AfterFill([wk EXCEPT !.pool_.slots_[s] = fill_eof(ch)], l, l.nrecv)
     ELSE IF r.errno = "EAGAIN"
     THEN AfterFill(wk, l, l.nrecv)
     ELSE AfterFill(handle_error_event(wk, s), l, l.nrecv)

\* what follows the return of try_flush_tx_buffer
AfterFlush(w, l) ==
  IF l.pc = "dflush"
  THEN DrainStep4(w, l)
  ELSE FinishEvent([w EXCEPT !.counters = add_counter(@, "net.bytes_sent", l.nsent)], l)

\* try_flush_tx_buffer with a loop that is left on EAGAIN
try_flush_tx_buffer_step_ReturnsOnWouldBlock(w, l) ==
  LET s == l.channel
      ch == w.pool_.slots_[s]
      r == k_send(w.kern, ch.fd_, readable_span(ch.tx_buf_, capacity(ch.tx_buf_)))
      wk == [w EXCEPT !.kern = r.k]
      ch2 == flush_consume(ch, r.rc)
      l2 == [l EXCEPT !.nsent = IF l.pc = "oflush" THEN @ + r.rc ELSE @]
  IN IF r.rc >= 0
     THEN IF empty(ch2.tx_buf_)
          THEN AfterFlush([wk EXCEPT !.pool_.slots_[s] = ch2], l2)
          ELSE [w |-> [wk EXCEPT !.pool_.slots_[s] = ch2], loop |-> l2]
     ELSE IF r.errno = "EAGAIN"
     THEN AfterFlush(wk, l)
     ELSE [w |-> handle_error_event(wk, s), loop |-> l]

\* one send of try_flush_tx_buffer
try_flush_tx_buffer_step(w, l) ==
  LET s == l.channel
      ch == w.pool_.slots_[s]
      r == k_send(w.kern, ch.fd_, readable_span(ch.tx_buf_, capacity(ch.tx_buf_)))
      wk == [w EXCEPT !.kern = r.k]
      ch2 == flush_consume(ch, r.rc)
      l2 == [l EXCEPT !.nsent = IF l.pc = "oflush" THEN @ + r.rc ELSE @]
  IN IF r.rc >= 0
     THEN IF empty(ch2.tx_buf_)
          THEN AfterFlush([wk EXCEPT !.pool_.slots_[s] = ch2],
                          [l2 EXCEPT !.would_block = FALSE])
          ELSE [w |-> [wk EXCEPT !.pool_.slots_[s] = ch2], loop |-> l2]
     ELSE IF r.errno = "EAGAIN"
     THEN [w |-> wk, loop |-> [l EXCEPT !.would_block = TRUE]]
     ELSE [w |-> handle_error_event(wk, s), loop |-> l]

\* the lowest descriptor number not in use, or NoFd at the descriptor limit
lowest_free_fd(k) ==
  IF \E fd \in ClientFds : ~k.sock[fd].open
  THEN CHOOSE fd \in ClientFds :
         ~k.sock[fd].open /\ \A g \in ClientFds : ~k.sock[g].open => fd <= g
  ELSE NoFd

\* on_listener_event without the close_channel of a failed EPOLL_CTL_ADD
accept_one_NoClose(w, client_fd, add_ok) ==
  LET wk == [w EXCEPT !.kern.sock[client_fd] = [ClosedSock EXCEPT !.open = TRUE],
                      !.kern.backlog = @ - 1]
      a == pool_acquire(wk.pool_, client_fd)
      w1 == [wk EXCEPT !.pool_ = [a.P EXCEPT !.slots_[a.channel] = attach(@, client_fd)]]
      events == desired_events(w1.pool_.slots_[a.channel]) \cup {"EPOLLET", "EPOLLRDHUP"}
  IN IF add_ok
     THEN [w1 EXCEPT !.kern = epoll_ctl_add(@, client_fd, events)]
     ELSE w1

\* on_listener_event: one accepted connection; add_ok is the outcome of EPOLL_CTL_ADD
accept_one(w, client_fd, add_ok) ==
  LET wk == [w EXCEPT !.kern.sock[client_fd] = [ClosedSock EXCEPT !.open = TRUE],
                      !.kern.backlog = @ - 1]
      a == pool_acquire(wk.pool_, client_fd)
      w1 == [wk EXCEPT !.pool_ = [a.P EXCEPT !.slots_[a.channel] = attach(@, client_fd)]]
      events == desired_events(w1.pool_.slots_[a.channel]) \cup {"EPOLLET", "EPOLLRDHUP"}
  IN IF add_ok
     THEN [w1 EXCEPT !.kern = epoll_ctl_add(@, client_fd, events)]
     ELSE close_channel(w1, a.channel)

(***************************************************************************)
(* common.key_array and common.metrics.  A key_array<T, KeySet> is a       *)
(* function from its keys to T.  counter_t and gauge_t are unsigned and    *)
(* wrap: their width is Bits here (64 in the code).                        *)
(***************************************************************************)
Bits == 3

Wrap == 2 ^ Bits

\* unsigned arithmetic of counter_t / gauge_t
u64(x) == x % Wrap

CounterKeysST == {"testc.foo_st"}

CounterKeysMT == {"testc.foo_mt"}

TestCounterKeys == CounterKeysST \cup CounterKeysMT

AdditiveGaugeKeysST == {"testg.foo_st"}

AdditiveGaugeKeysMT == {"testg.foo_mt"}

AdditiveGaugeKeys == AdditiveGaugeKeysST \cup AdditiveGaugeKeysMT

\* key_array<T, KeySet>{}: every slot value-initialised
key_array(keys, v) == [k \in keys |-> v]

\* ((get<OtherKeys>() += other.get<OtherKeys>()), ...)
RECURSIVE plus_each(_, _, _)
plus_each(a, other, OtherKeys) ==
  IF OtherKeys = {} THEN a
  ELSE LET K == CHOOSE k \in OtherKeys : TRUE
       IN plus_each([a EXCEPT ![K] = u64(@ + other[K])], other, OtherKeys \ {K})

\* key_set<Keys...>::index_of<K>(): the first position of K (from 1 here)
index_of(Keys, K) ==
  CHOOSE i \in 1..Len(Keys) : Keys[i] = K /\ \A j \in 1..(i - 1) : Keys[j] # K

\* key_array<T, key_set<Keys...>> with its std::array: the keys in the order of
\* the template arguments, and data
get(a, K) == a.data[index_of(a.keys, K)]

KeysOf(a) == {a.keys[i] : i \in 1..Len(a.keys)}

\* the slots of a by key, as the operators over [key -> T] below see an array
slots_by_key(a) == [K \in KeysOf(a) |-> get(a, K)]

\* the fold of operator+= from its i-th OtherKey on
RECURSIVE plus_from(_, _, _)
plus_from(a, other, i) ==
  IF i > Len(other.keys) THEN a
  ELSE plus_from([a EXCEPT !.data[index_of(a.keys, other.keys[i])] =
                                u64(@ + get(other, other.keys[i]))],
                 other, i + 1)

operator_plus_eq_SamePosition(a, other) ==
  [a EXCEPT !.data = [i \in DOMAIN a.data |->
                        IF i \in DOMAIN other.data THEN u64(a.data[i] + other.data[i])
                        ELSE a.data[i]]]

\* key_array::operator+= on the arrays themselves
operator_plus_eq(a, other) == plus_from(a, other, 1)

\* key_array::operator+=, defined when other's keys are keys of a
key_array_plus(a, other) == plus_each(a, other, DOMAIN other)

AdditiveGaugeShard == [current_ |-> 0, last_synced_ |-> 0]

AdditiveGaugeShard_sync_AddsCurrent(global, shard) == u64(global + shard.current_)

AdditiveGaugeShard_sync(global, shard) ==
  IF shard.current_ >= shard.last_synced_
  THEN u64(global + (shard.current_ - shard.last_synced_))
  ELSE u64(global - (shard.last_synced_ - shard.current_))

AdditiveGaugeShard_post_sync(shard) == [shard EXCEPT !.last_synced_ = shard.current_]

AdditiveGaugeShard_set(shard, val) == [shard EXCEPT !.current_ = val]

\* f is applied to the slots of global whose key local has too
bitransform_key_arrays(global, local) ==
  [k \in DOMAIN global |->
     IF k \in DOMAIN local THEN AdditiveGaugeShard_sync(global[k], local[k])
     ELSE global[k]]

ThreadLocalMetrics ==
  [counters |-> key_array(CounterKeysMT, 0),
   additive_gauges |-> key_array(AdditiveGaugeKeysMT, AdditiveGaugeShard)]

GlobalMetrics ==
  [counters |-> key_array(TestCounterKeys, 0),
   additive_gauges |-> key_array(AdditiveGaugeKeys, 0)]

post_sync_KeepsCounters(local) ==
  [local EXCEPT !.additive_gauges =
     [k \in DOMAIN @ |-> AdditiveGaugeShard_post_sync(@[k])]]

\* ThreadLocalMetrics::post_sync
post_sync(local) ==
  [counters |-> key_array(DOMAIN local.counters, 0),
   additive_gauges |->
     [k \in DOMAIN local.additive_gauges |->
        AdditiveGaugeShard_post_sync(local.additive_gauges[k])]]

\* GlobalMetrics::sync_with
sync_with(g, local) ==
  [counters |-> key_array_plus(g.counters, local.counters),
   additive_gauges |-> bitransform_key_arrays(g.additive_gauges, local.additive_gauges)]

\* flush_thread's default min_interval (1s), in ticks
DefaultInterval == 1

ExitInterval_AsDefault == DefaultInterval

\* ~ThreadLocalMetrics: flush_thread(0ms)
ExitInterval == 0

\* flush_thread(min_interval) returns early iff now - last < min_interval;
\* last is initialised to now - min_interval by the thread's first call, so
\* that call never returns early, and no call with min_interval = 0 does.
\* Between two calls any time may pass.
may_return_early(th, min_interval) == th.last_init /\ min_interval > 0

(***************************************************************************)
(* Threads that use the metrics API.  Each has its thread-local shard      *)
(* (local_metrics), created on first use, and the thread_local `last` of   *)
(* flush_thread.  incs and last_set record what the thread asked for: the  *)
(* number of increments of the MT counter and the last value it set the MT *)
(* gauge to; folded says that a fold has completed since its last write.   *)
(***************************************************************************)
NThreads == 2

MaxIncs == 2

Threads == 1..NThreads

NoThread == 0

\* the values set_gauge is called with
GaugeVals == {0, 1, Wrap - 1}

IdleThread ==
  [pc |-> "run", exiting |-> FALSE, created |-> FALSE, last_init |-> FALSE,
   incs |-> 0, last_set |-> 0, folded |-> TRUE]

(***************************************************************************)
(* State                                                                   *)
(***************************************************************************)
VARIABLES
  pool_,      \* Reactor::pool_
  reactor,    \* Reactor::listener_fd_, Reactor::shutting_down_
  kern,       \* sockets, epoll, eventfd, signalfd, peers
  counters,   \* the metric totals
  hooks,      \* invocations of the protocol's on_error / on_close
  loop,       \* the loop thread
  last_call,  \* the tx_send call just made through ChannelIO, if any
  pool_call,  \* the ChannelPool call just made, if any
  global_metrics,        \* detail::global_metrics
  global_metrics_mutex,  \* the thread holding detail::global_metrics_mutex
  local_metrics,         \* each thread's local_metrics() instance
  threads,               \* the threads using the metrics API
  arrays,                \* a key_array before +=, the right operand, and the array after it
  buf                    \* a SimpleBuffer used on its own, and what went in and out of it

\* what the reactor and its channels never touch
rest == <<pool_call, global_metrics, global_metrics_mutex, local_metrics, threads, arrays,
          buf>>

vars == <<pool_, reactor, kern, counters, hooks, loop, last_call, rest>>

NoPoolCall == [op |-> "none", fd |-> NoFd, result |-> Nullptr]

NoKeyArray == [keys |-> <<>>, data |-> <<>>]

NoArrays == [left |-> NoKeyArray, right |-> NoKeyArray, sum |-> NoKeyArray, done |-> FALSE]

\* the last call of the buffer, and whether its count fitted: "span" if it was
\* at most the span handed out (for write_from and read_into, the free or used
\* space), "space" if above the span but not above the free or used space,
\* "over" if above that too
NoBufCall == [op |-> "none", fit |-> "span"]

\* a fresh SimpleBuffer<BufCap>.  only_wr says that nothing but write_from and
\* read_into has been called; as long as that is so, written is every byte
\* that write_from made readable and read every byte that read_into returned,
\* in order
NoBuf == [b |-> SimpleBuffer(BufCap), written |-> <<>>, read |-> <<>>,
          only_wr |-> TRUE, call |-> NoBufCall]

\* nothing but the reactor is in use
RestInit ==
  /\ pool_call = NoPoolCall
  /\ global_metrics = GlobalMetrics
  /\ global_metrics_mutex = NoThread
  /\ local_metrics = [t \in Threads |-> ThreadLocalMetrics]
  /\ threads = [t \in Threads |-> IdleThread]
  /\ arrays = NoArrays
  /\ buf = NoBuf

W == [pool_ |-> pool_, reactor |-> reactor, kern |-> kern,
      counters |-> counters, hooks |-> hooks]

Commit(w) ==
  \E v \in {w} :
    /\ pool_' = v.pool_
    /\ reactor' = v.reactor
    /\ kern' = v.kern
    /\ counters' = v.counters
    /\ hooks' = v.hooks

\* state after Reactor::Reactor(), with the listening socket already bound
Init ==
  /\ pool_ = ChannelPool
  /\ reactor = ReactorFields
  /\ kern = Kernel
  /\ counters = Metrics
  /\ hooks = Hooks
  /\ loop = IdleLoop("init", {})
  /\ last_call = NoCall
  /\ RestInit

(***************************************************************************)
(* The loop thread                                                         *)
(***************************************************************************)
\* scratch_main: reactor.add_listener(listen_fd), then reactor.run() up to its
\* first epoll_wait
AddListener ==
  /\ loop.pc = "init"
  /\ reactor.listener_fd_ = NoFd
  /\ reactor' = [reactor EXCEPT !.listener_fd_ = ListenFd]
  /\ kern' = [kern EXCEPT !.listen_reg = TRUE,
                          !.ready = IF kern.backlog > 0 THEN @ \cup {ListenFd} ELSE @]
  /\ loop' = [loop EXCEPT !.pc = IF run_returns(reactor', pool_) THEN "returned" ELSE "wait"]
  /\ UNCHANGED <<pool_, counters, hooks, last_call, rest>>

\* poll_once(): epoll_wait returns a batch
PollWait ==
  /\ loop.pc = "wait"
  /\ harvest(kern) # {}
  /\ loop' = [loop EXCEPT !.pc = "dispatch", !.batch = harvest(kern)]
  /\ kern' = [kern EXCEPT !.ready = {}]
  /\ UNCHANGED <<pool_, reactor, counters, hooks, last_call, rest>>

\* poll_once() returns, the batch being exhausted, and run() makes the test at
\* the top of its loop
Run ==
  /\ loop.pc = "dispatch"
  /\ loop.batch = {}
  /\ loop' = [loop EXCEPT !.pc = IF run_returns(reactor, pool_) THEN "returned" ELSE "wait"]
  /\ UNCHANGED <<pool_, reactor, kern, counters, hooks, last_call, rest>>

IsChannelEvent(e) == pool_lookup(pool_, e.fd) # Nullptr

IsListenerEvent(e) == ~IsChannelEvent(e) /\ e.fd = reactor.listener_fd_

IsWakeupEvent(e) == ~IsChannelEvent(e) /\ ~IsListenerEvent(e) /\ e.fd = WakeupFd

IsSignalEvent(e) ==
  ~IsChannelEvent(e) /\ ~IsListenerEvent(e) /\ ~IsWakeupEvent(e) /\ e.fd = SignalFd

\* on_channel_event up to the first recv/send of handle_events
OnChannelEvent ==
  /\ loop.pc = "dispatch"
  /\ \E e \in loop.batch :
       /\ IsChannelEvent(e)
       /\ LET s == pool_lookup(pool_, e.fd)
              l == [IdleLoop("fill", loop.batch \ {e}) EXCEPT
                      !.channel = s, !.client_fd = pool_.slots_[s].fd_,
                      !.event_mask = e.events]
              r == IF "EPOLLERR" \in e.events
                   THEN [w |-> handle_error_event(W, s), loop |-> [l EXCEPT !.pc = "post"]]
                   ELSE IF e.events \cap {"EPOLLIN", "EPOLLHUP", "EPOLLRDHUP"} # {}
                   THEN [w |-> W, loop |-> l]
                   ELSE AfterDrain(W, l)
          IN Commit(r.w) /\ loop' = r.loop
  /\ UNCHANGED <<last_call, rest>>

\* handle_events: one step of try_fill_rx_buffer in the drain loop
FillStep ==
  /\ loop.pc = "fill"
  /\ \E r \in {try_fill_rx_buffer_step(W, loop)} : Commit(r.w) /\ loop' = r.loop
  /\ UNCHANGED <<last_call, rest>>

\* handle_events: one send of try_flush_tx_buffer, called from the drain loop
\* ("dflush") or for a write-only wake-up ("oflush")
FlushStep ==
  /\ loop.pc \in {"dflush", "oflush"}
  /\ \E r \in {try_flush_tx_buffer_step(W, loop)} : Commit(r.w) /\ loop' = r.loop
  /\ UNCHANGED <<last_call, rest>>

\* handle_events: the hang-up rule at its end
HandleEventsTail ==
  /\ loop.pc = "tail"
  /\ Commit(handle_events_tail(W, loop.channel, loop.event_mask))
  /\ loop' = [loop EXCEPT !.pc = "post"]
  /\ UNCHANGED <<last_call, rest>>

\* on_channel_event, after handle_events returned: close or re-arm
AfterHandleEvents ==
  /\ loop.pc = "post"
  /\ Commit(on_channel_event_tail(W, loop.channel, loop.client_fd))
  /\ loop' = IdleLoop("dispatch", loop.batch)
  /\ UNCHANGED <<last_call, rest>>

OnListenerEvent ==
  /\ loop.pc = "dispatch"
  /\ \E e \in loop.batch :
       /\ IsListenerEvent(e)
       /\ loop' = IdleLoop("accept", loop.batch \ {e})
  /\ UNCHANGED <<pool_, reactor, kern, counters, hooks, last_call, rest>>

\* on_listener_event: one accept4 and what follows it
AcceptStep ==
  /\ loop.pc = "accept"
  /\ \/ /\ kern.backlog = 0                      \* EAGAIN
        /\ loop' = IdleLoop("dispatch", loop.batch)
        /\ UNCHANGED <<pool_, reactor, kern, counters, hooks>>
     \/ /\ kern.backlog > 0
        /\ lowest_free_fd(kern) # NoFd
        /\ \E add_ok \in BOOLEAN : Commit(accept_one(W, lowest_free_fd(kern), add_ok))
        /\ UNCHANGED loop
     \/ /\ kern.backlog > 0
        /\ \E errno \in (IF lowest_free_fd(kern) = NoFd THEN {"EMFILE"} ELSE {}) \cup
                        (IF kern.nacceptErr < MaxAcceptErr THEN AcceptErrnos ELSE {}) :
             /\ counters' = inc_counter(counters, accept_error_key(errno))
             /\ kern' = [kern EXCEPT !.nacceptErr = IF @ < MaxAcceptErr THEN @ + 1 ELSE @,
                                      !.accept_errno = errno]
        /\ loop' = IdleLoop("dispatch", loop.batch)
        /\ UNCHANGED <<pool_, reactor, hooks>>
  /\ UNCHANGED <<last_call, rest>>

OnWakeupEvent ==
  /\ loop.pc = "dispatch"
  /\ \E e \in loop.batch :
       /\ IsWakeupEvent(e)
       /\ \E order \in Orders :
            Commit(sweep_closing_channels([W EXCEPT !.kern.wakeup_cnt = 0], order))
       /\ loop' = [loop EXCEPT !.batch = @ \ {e}]
  /\ UNCHANGED <<last_call, rest>>

OnSignalEvent ==
  /\ loop.pc = "dispatch"
  /\ \E e \in loop.batch :
       /\ IsSignalEvent(e)
       /\ loop' = IdleLoop("sigread", loop.batch \ {e})
  /\ UNCHANGED <<pool_, reactor, kern, counters, hooks, last_call, rest>>

\* on_signal_event: one read of the signalfd; request_shutdown() if it
\* delivered a signal, otherwise back in poll_once, which sweeps
SignalRead ==
  /\ loop.pc = "sigread"
  /\ \E order \in Orders :
       IF kern.sig_pending # {}
       THEN \E sig \in kern.sig_pending :
              /\ Commit(request_shutdown([W EXCEPT !.kern.sig_pending = @ \ {sig}], order))
              /\ UNCHANGED loop
       ELSE /\ Commit(sweep_closing_channels(W, order))
            /\ loop' = IdleLoop("dispatch", loop.batch)
  /\ UNCHANGED <<last_call, rest>>

OnUnknownEvent ==
  /\ loop.pc = "dispatch"
  /\ \E e \in loop.batch :
       /\ ~IsChannelEvent(e) /\ ~IsListenerEvent(e) /\ ~IsWakeupEvent(e) /\ ~IsSignalEvent(e)
       /\ loop' = [loop EXCEPT !.batch = @ \ {e}]
  /\ UNCHANGED <<pool_, reactor, kern, counters, hooks, last_call, rest>>

LoopNext ==
  \/ AddListener \/ PollWait \/ Run
  \/ OnChannelEvent \/ FillStep \/ FlushStep \/ HandleEventsTail \/ AfterHandleEvents
  \/ OnListenerEvent \/ AcceptStep
  \/ OnWakeupEvent \/ OnSignalEvent \/ SignalRead \/ OnUnknownEvent

(***************************************************************************)
(* The environment: peers, the network, signals                            *)
(***************************************************************************)
Live(fd) == kern.sock[fd].open /\ ~kern.sock[fd].dead

PeerConnect ==
  /\ loop.pc # "returned"
  /\ kern.listen_open
  /\ kern.nconns < MaxConns
  /\ kern' = [kern EXCEPT !.backlog = @ + 1, !.nconns = @ + 1,
                          !.ready = IF kern.listen_reg THEN @ \cup {ListenFd} ELSE @]
  /\ UNCHANGED <<pool_, reactor, counters, hooks, loop, last_call, rest>>

\* the peer writes its next byte, of at most limit
Write(fd, limit) ==
  /\ loop.pc # "returned"
  /\ Live(fd)
  /\ ~kern.sock[fd].fin /\ ~kern.sock[fd].shut_rd
  /\ kern.sock[fd].pw < limit
  /\ kern' = k_wake([kern EXCEPT !.sock[fd].pw = @ + 1,
                                 !.sock[fd].inq = Append(@, kern.sock[fd].pw + 1)],
                    fd, {"EPOLLIN"})
  /\ UNCHANGED <<pool_, reactor, counters, hooks, loop, last_call, rest>>

PeerWrite(fd) == Write(fd, MaxBytes)

\* the peer half-closes: shutdown(SHUT_WR) on its side
PeerFin(fd) ==
  /\ loop.pc # "returned"
  /\ Live(fd)
  /\ ~kern.sock[fd].fin
  /\ kern' = k_wake([kern EXCEPT !.sock[fd].fin = TRUE], fd, {"EPOLLIN", "EPOLLRDHUP"})
  /\ UNCHANGED <<pool_, reactor, counters, hooks, loop, last_call, rest>>

\* the peer reads one byte of what was sent to it
PeerRead(fd) ==
  /\ loop.pc # "returned"
  /\ Live(fd)
  /\ kern.sock[fd].outn > 0
  /\ kern' = k_wake([kern EXCEPT !.sock[fd].outn = @ - 1], fd, {"EPOLLOUT"})
  /\ UNCHANGED <<pool_, reactor, counters, hooks, loop, last_call, rest>>

\* the connection fails (reset by the peer, timed out, ...)
ConnFail(fd) ==
  /\ loop.pc # "returned"
  /\ Live(fd)
  /\ kern.nfail < MaxConnFail
  /\ \E e \in SockErrnos :
       kern' = k_wake([kern EXCEPT !.sock[fd].dead = TRUE,
                                   !.sock[fd].so_error = e,
                                   !.sock[fd].shut_rd = TRUE,
                                   !.sock[fd].shut_wr = TRUE,
                                   !.nfail = @ + 1],
                      fd, EventFlags)
  /\ UNCHANGED <<pool_, reactor, counters, hooks, loop, last_call, rest>>

DeliverSignal ==
  /\ loop.pc # "returned"
  /\ kern.nsignals < MaxSignals
  /\ \E sig \in Signals \ kern.sig_pending :
       kern' = [kern EXCEPT !.sig_pending = @ \cup {sig}, !.nsignals = @ + 1]
  /\ UNCHANGED <<pool_, reactor, counters, hooks, loop, last_call, rest>>

\* another thread calls the public request_shutdown() while the loop thread
\* is blocked in epoll_wait.  (A call that overlaps a running handler races
\* with it on shutting_down_ and on the pool; that is not modelled here.)
ExternalShutdown ==
  /\ loop.pc = "wait"
  /\ \E order \in Orders : Commit(request_shutdown(W, order))
  /\ UNCHANGED <<loop, last_call, rest>>

EnvNext ==
  \/ PeerConnect
  \/ \E fd \in ClientFds : PeerWrite(fd)
  \/ \E fd \in ClientFds : PeerFin(fd)
  \/ \E fd \in ClientFds : PeerRead(fd)
  \/ \E fd \in ClientFds : ConnFail(fd)
  \/ DeliverSignal
  \/ ExternalShutdown

Next == LoopNext \/ EnvNext

Spec == Init /\ [][Next]_vars

(***************************************************************************)
(* EchoSpec: the reactor serving a single client, which may write a stream *)
(* longer than the channel's buffers.  FairSpec adds what the claims about *)
(* progress assume: the loop thread keeps running, and a peer whose        *)
(* connection is intact eventually reads what was sent to it.              *)
(***************************************************************************)
SoleConnect == kern.nconns = 0 /\ PeerConnect

LongWrite(fd) == Write(fd, LongBytes)

EchoNext ==
  \/ LoopNext
  \/ SoleConnect
  \/ \E fd \in ClientFds : LongWrite(fd)
  \/ \E fd \in ClientFds : PeerFin(fd)
  \/ \E fd \in ClientFds : PeerRead(fd)
  \/ \E fd \in ClientFds : ConnFail(fd)
  \/ DeliverSignal
  \/ ExternalShutdown

EchoSpec == Init /\ [][EchoNext]_vars

FairSpec ==
  /\ Init
  /\ [][EchoNext]_vars
  /\ WF_vars(LoopNext)
  /\ \A fd \in ClientFds : WF_vars(PeerRead(fd))

(***************************************************************************)
(* ChannelSpec: one Channel object driven through its interface in every   *)
(* order its callers may use: the reactor's calls (attach, detach,         *)
(* begin_shutdown, the pieces of handle_events) and the protocol's calls   *)
(* through ChannelIO (tx_send, rx_consume).  The object is slot UnitSlot   *)
(* of the pool's storage; nothing else moves.                              *)
(***************************************************************************)
MaxData == 3

UnitSlot == <<1, 0>>

UnitChannel == pool_.slots_[UnitSlot]

\* the arguments of tx_send: the empty span and every span of 1..MaxData bytes
Datas == UNION {[1..n -> 1..MaxBytes] : n \in 0..MaxData}

ChanInit ==
  /\ pool_ = ChannelPool
  /\ reactor = ReactorFields
  /\ kern = Kernel
  /\ counters = Metrics
  /\ hooks = Hooks
  /\ loop = IdleLoop("unit", {})
  /\ last_call = NoCall
  /\ RestInit

ChanSet(ch) ==
  /\ pool_' = [pool_ EXCEPT !.slots_[UnitSlot] = ch]
  /\ UNCHANGED <<reactor, kern, counters, hooks, loop>>

\* a pooled channel is attached only while detached
ChanAttach ==
  /\ UnitChannel.socket_state_ = "Closed"
  /\ \E client_fd \in ClientFds : ChanSet(attach(UnitChannel, client_fd))
  /\ last_call' = NoCall
  /\ UNCHANGED rest

ChanDetach ==
  /\ UnitChannel.socket_state_ # "Closed"
  /\ ChanSet(detach(UnitChannel))
  /\ last_call' = NoCall
  /\ UNCHANGED rest

ChanBeginShutdown ==
  /\ UnitChannel.socket_state_ # "Closed"
  /\ ChanSet(begin_shutdown(UnitChannel))
  /\ last_call' = NoCall
  /\ UNCHANGED rest

\* ChannelIO::send
ChanTxSend ==
  \E data \in Datas :
    LET r == tx_send(UnitChannel, data)
    IN /\ ChanSet(r.ch)
       /\ last_call' = [data |-> data, n |-> r.n, result |-> r.result]
       /\ UNCHANGED rest

\* ChannelIO::rx_consume
ChanRxConsume ==
  /\ \E nbytes \in 0..RX_BUF_SIZE : ChanSet(rx_consume(UnitChannel, nbytes))
  /\ last_call' = NoCall
  /\ UNCHANGED rest

\* try_fill_rx_buffer: a recv that returned recv_rc > 0 bytes
ChanRecv ==
  /\ can_read(UnitChannel)
  /\ \E data \in Datas :
       /\ Len(data) \in 1..free_space(UnitChannel.rx_buf_)
       /\ ChanSet(fill_commit(UnitChannel, data, Len(data)))
  /\ last_call' = NoCall
  /\ UNCHANGED rest

\* try_fill_rx_buffer: a recv that returned 0
ChanEof ==
  /\ can_read(UnitChannel)
  /\ ChanSet(fill_eof(UnitChannel))
  /\ last_call' = NoCall
  /\ UNCHANGED rest

\* try_flush_tx_buffer: a send that took send_rc bytes
ChanFlush ==
  /\ can_write(UnitChannel)
  /\ \E send_rc \in 0..used_space(UnitChannel.tx_buf_) :
       ChanSet(flush_consume(UnitChannel, send_rc))
  /\ last_call' = NoCall
  /\ UNCHANGED rest

\* handle_error_event (the descriptor is not a socket of the kernel model here,
\* so getsockopt fails and nothing is counted)
ChanError ==
  /\ UnitChannel.socket_state_ # "Closed"
  /\ Commit(handle_error_event(W, UnitSlot))
  /\ UNCHANGED loop
  /\ last_call' = NoCall
  /\ UNCHANGED rest

\* the hang-up rule at the end of handle_events
ChanHangup ==
  /\ UnitChannel.socket_state_ # "Closed"
  /\ \E event_mask \in {{"EPOLLHUP"}, {"EPOLLRDHUP"}} :
       Commit(handle_events_tail(W, UnitSlot, event_mask))
  /\ UNCHANGED loop
  /\ last_call' = NoCall
  /\ UNCHANGED rest

ChanNext ==
  \/ ChanAttach \/ ChanDetach \/ ChanBeginShutdown
  \/ ChanTxSend \/ ChanRxConsume
  \/ ChanRecv \/ ChanEof \/ ChanFlush \/ ChanError \/ ChanHangup

ChannelSpec == ChanInit /\ [][ChanNext]_vars

(***************************************************************************)
(* Properties of the channel interface, checked under ChannelSpec.         *)
(***************************************************************************)
\* C1: in every reachable channel state desired_events() holds EPOLLIN iff
\* the state is Running and RX is not full, holds EPOLLOUT iff the state is
\* Running or Draining and TX is not empty, and holds nothing else; no mask
\* is ever stored in the channel.
C1_DesiredEvents ==
  \A s \in SlotIds :
    LET ch == pool_.slots_[s]
    IN /\ "EPOLLIN" \in desired_events(ch)
            <=> (ch.socket_state_ = "Running" /\ ch.rx_buf_.offset_ < RX_BUF_SIZE)
       /\ "EPOLLOUT" \in desired_events(ch)
            <=> (ch.socket_state_ \in {"Running", "Draining"} /\ ch.tx_buf_.offset_ > 0)
       /\ desired_events(ch) \subseteq {"EPOLLIN", "EPOLLOUT"}
       /\ ch.last_events_mask_ = {}

\* a Running channel whose RX is full and whose TX holds bytes: write interest only
C1_Witness ==
  /\ UnitChannel.socket_state_ = "Running"
  /\ UnitChannel.rx_buf_.offset_ = RX_BUF_SIZE
  /\ UnitChannel.tx_buf_.offset_ > 0
  /\ desired_events(UnitChannel) = {"EPOLLOUT"}

\* C2: in every reachable channel state should_close() is true iff the state
\* is Aborting, or the state is Draining and TX is empty; it is false for a
\* Running channel and for a Draining channel with bytes left in TX.
C2_ShouldClose ==
  \A s \in SlotIds :
    LET ch == pool_.slots_[s]
    IN /\ should_close(ch)
            <=> \/ ch.socket_state_ = "Aborting"
                \/ ch.socket_state_ = "Draining" /\ ch.tx_buf_.offset_ = 0
       /\ ch.socket_state_ = "Running" => ~should_close(ch)
       /\ ch.socket_state_ = "Draining" /\ ch.tx_buf_.offset_ > 0 => ~should_close(ch)

\* a Draining channel that still has bytes to flush
C2_Witness ==
  /\ UnitChannel.socket_state_ = "Draining"
  /\ UnitChannel.tx_buf_.offset_ > 0
  /\ ~should_close(UnitChannel)

\* the step is a call of tx_send on the unit channel
IsTxSend == last_call'.result # "None"

\* the live bytes of a buffer, oldest first
Contents(b) == SubSeq(b.buf_, 1, b.offset_)

\* C4: tx_send on a channel in state Closed or Aborting returns (0, Forbidden)
\* and leaves the TX buffer (and the rest of the channel) unchanged; in states
\* Running and Draining it never returns Forbidden.
C4_Forbidden ==
  [][IsTxSend =>
       /\ UnitChannel.socket_state_ \in {"Closed", "Aborting"} =>
            /\ last_call'.result = "Forbidden"
            /\ last_call'.n = 0
            /\ UnitChannel' = UnitChannel
       /\ UnitChannel.socket_state_ \in {"Running", "Draining"} =>
            last_call'.result # "Forbidden"]_vars

\* a non-empty tx_send was refused on an Aborting channel whose TX holds bytes
C4_Witness ==
  /\ last_call.result = "Forbidden"
  /\ last_call.data # <<>>
  /\ UnitChannel.socket_state_ = "Aborting"
  /\ UnitChannel.tx_buf_.offset_ > 0

\* what C5 says of every tx_send in Running or Draining but for the Partial case
TxSendAppends ==
  LET free == TX_BUF_SIZE - UnitChannel.tx_buf_.offset_
      want == Len(last_call'.data)
      n == IF want <= free THEN want ELSE free
  IN /\ last_call'.n = n
     /\ Contents(UnitChannel'.tx_buf_)
          = Contents(UnitChannel.tx_buf_) \o SubSeq(last_call'.data, 1, n)
     /\ UnitChannel'.tx_buf_.offset_ <= TX_BUF_SIZE
     /\ UnitChannel' = [UnitChannel EXCEPT !.tx_buf_ = UnitChannel'.tx_buf_]
     /\ last_call'.result = "Full" <=> n = want
     /\ last_call'.result \in {"Full", "Partial"}

\* C5 (as stated): in Running and Draining tx_send(bytes) appends exactly the
\* first min(|bytes|, TX free space) bytes and returns that count; the result
\* is Full iff all bytes were queued and otherwise Partial, in which case at
\* least one byte was queued and TX is full after the call.
C5_AsStated ==
  [][IsTxSend /\ UnitChannel.socket_state_ \in {"Running", "Draining"} =>
       /\ TxSendAppends
       /\ last_call'.result = "Partial" =>
            /\ last_call'.n >= 1
            /\ UnitChannel'.tx_buf_.offset_ = TX_BUF_SIZE]_vars

\* C5 (amended): as above, but a Partial result means that fewer bytes than
\* given, possibly none, were queued and TX is full after the call.
C5_TxSend ==
  [][IsTxSend /\ UnitChannel.socket_state_ \in {"Running", "Draining"} =>
       /\ TxSendAppends
       /\ last_call'.result = "Partial" =>
            /\ last_call'.n < Len(last_call'.data)
            /\ UnitChannel'.tx_buf_.offset_ = TX_BUF_SIZE]_vars

\* tx_send on a full TX: nothing queued, Partial
C5_Witness ==
  /\ last_call.result = "Partial"
  /\ last_call.n = 0
  /\ UnitChannel.socket_state_ \in {"Running", "Draining"}
  /\ UnitChannel.tx_buf_.offset_ = TX_BUF_SIZE

(***************************************************************************)
(* Properties of the reactor, checked under Spec.                          *)
(***************************************************************************)
AllowedTransition(from, to) ==
  \/ from = to
  \/ from = "Closed" /\ to = "Running"
  \/ from = "Running" /\ to = "Draining"
  \/ from \in {"Running", "Draining"} /\ to = "Aborting"
  \/ to = "Closed"

\* C3: every change of a channel's socket state is Closed to Running,
\* Running to Draining, Running or Draining to Aborting, or any state to
\* Closed; so a channel that left Running does not return to it, and an
\* Aborting channel becomes neither Draining nor Running, before it is
\* detached.
C3_Transitions ==
  [][\A s \in SlotIds :
       AllowedTransition(pool_.slots_[s].socket_state_,
                         pool_'.slots_[s].socket_state_)]_vars

\* after an earlier channel was closed, a channel that became Aborting in
\* its handler is at the hang-up rule with a hang-up in its event mask
C3_Witness ==
  /\ loop.pc = "tail"
  /\ loop.event_mask \cap {"EPOLLHUP", "EPOLLRDHUP"} # {}
  /\ pool_.slots_[loop.channel].socket_state_ = "Aborting"
  /\ hooks.on_close > 0

\* the step closes the client descriptor fd
ClosesDescriptor(fd) == kern.sock[fd].open /\ ~kern'.sock[fd].open

\* the peer of fd wrote its bytes and half-closed, and its connection is intact
HalfClosedSession(fd) == kern.sock[fd].fin /\ ~kern.sock[fd].dead

ChannelOf(fd) == pool_.slots_[pool_lookup(pool_, fd)]

\* at the close the peer of fd has been sent what it wrote, the bytes 1..pw in
\* this order, and nothing is left in TX, in RX or in the socket's receive
\* queue
EchoedBeforeClose(fd) ==
  /\ kern.sock[fd].sent = [i \in 1..kern.sock[fd].pw |-> i]
  /\ ChannelOf(fd).tx_buf_.offset_ = 0
  /\ ChannelOf(fd).rx_buf_.offset_ = 0
  /\ kern.sock[fd].inq = <<>>

Idle == loop.pc \in {"wait", "returned"}

\* C7: after Echo sessions in which every byte received was sent back and the
\* channels were closed, net.bytes_received and net.bytes_sent have grown by
\* the number of bytes received and sent: every byte passed to send with
\* success is counted, whichever flush sent it.
C7_Counters ==
  Idle /\ pool_empty(pool_) /\ kern.nfail = 0 /\ kern.total_sent = kern.total_rcvd
    => /\ counters["net.bytes_received"] = kern.total_rcvd
       /\ counters["net.bytes_sent"] = kern.total_sent

\* C8: whenever run has returned, shutdown was requested, the listener is
\* unregistered and closed, and the pool is empty: every channel is
\* detached, no pool entry is left and every client descriptor is closed.
C8_RunReturns ==
  loop.pc = "returned" =>
    /\ reactor.shutting_down_
    /\ reactor.listener_fd_ = NoFd
    /\ ~kern.listen_reg
    /\ ~kern.listen_open
    /\ pool_empty(pool_)
    /\ ActiveFds(pool_) = {}
    /\ \A s \in SlotIds : pool_.slots_[s].socket_state_ = "Closed"
                          /\ pool_.slots_[s].fd_ = NoFd
    /\ \A fd \in ClientFds : ~kern.sock[fd].open /\ ~kern.interest[fd].reg

\* run returned after MaxConns connections had been served and closed
C8_Witness ==
  /\ loop.pc = "returned"
  /\ hooks.on_close = MaxConns
  /\ kern.total_rcvd > 0

\* the step reads a signal from the signalfd while shutdown is already under
\* way: a second or later call of request_shutdown
LaterShutdownCall ==
  /\ reactor.shutting_down_
  /\ loop.pc = "sigread"
  /\ kern'.sig_pending # kern.sig_pending
  /\ kern'.sig_pending \subseteq kern.sig_pending

\* C10: a second or later call of request_shutdown changes no reactor, pool
\* or channel state and does not write to the wake-up descriptor again.
C10_Idempotent ==
  [][LaterShutdownCall =>
       /\ reactor' = reactor
       /\ pool_' = pool_
       /\ kern'.wakeup_cnt = kern.wakeup_cnt
       /\ kern' = [kern EXCEPT !.sig_pending = kern'.sig_pending]
       /\ counters' = counters
       /\ hooks' = hooks]_vars

\* two signals were delivered one after the other and both were read
C10_Witness ==
  /\ kern.nsignals = 2
  /\ kern.sig_pending = {}
  /\ reactor.shutting_down_
  /\ loop.pc = "sigread"

(***************************************************************************)
(* Progress of a shutdown, checked under FairSpec.                         *)
(***************************************************************************)
\* a signal is pending on the signal descriptor, or request_shutdown has run
ShutdownRequested == kern.sig_pending # {} \/ reactor.shutting_down_

\* C9: after a shutdown request (a signal delivered through the signal
\* descriptor, or request_shutdown called from another thread) the reactor
\* does not stay in the readiness wait: provided every peer eventually reads
\* what is pending for it or its connection fails, every channel is closed
\* and run eventually returns.
C9_ShutdownCompletes == ShutdownRequested ~> (loop.pc = "returned")

\* the loop thread is inside try_flush_tx_buffer on a channel that a failed
\* send has made Aborting
StuckInFlush ==
  /\ loop.pc \in {"dflush", "oflush"}
  /\ pool_.slots_[loop.channel].socket_state_ = "Aborting"

\* once there it stays there
C9_StuckForever == [][StuckInFlush => StuckInFlush']_vars

\* a shutdown signal is pending while the loop thread is stuck
C9_Witness == StuckInFlush /\ kern.sig_pending # {}

(***************************************************************************)
(* Threads and the reactor, checked under Spec.                            *)
(***************************************************************************)
\* C11: a shutdown request issued from a thread other than the loop thread
\* does not itself touch reactor fields, the channel pool or any channel: it
\* only posts to the wake-up descriptor, and leaves every mutation to the
\* loop thread.
C11_OffThreadOnlyPosts ==
  [][ExternalShutdown =>
       /\ reactor' = reactor
       /\ pool_' = pool_
       /\ hooks' = hooks
       /\ kern' = [kern EXCEPT !.wakeup_cnt = kern'.wakeup_cnt]]_vars

\* another thread has shut the reactor down, closing a live channel, while the
\* loop thread has not left epoll_wait since
C11_Witness ==
  /\ loop.pc = "wait"
  /\ reactor.shutting_down_
  /\ kern.wakeup_cnt > 0
  /\ kern.nsignals = 0
  /\ hooks.on_close > 0

(***************************************************************************)
(* PoolSpec: one ChannelPool driven through acquire and release in every   *)
(* order, over more descriptors than a chunk has slots.  A duplicate       *)
(* acquire ends in the assert of acquire when assertions are compiled in   *)
(* (the process aborts) and in `return nullptr` when they are not (NDEBUG).*)
(***************************************************************************)
PoolInit ==
  /\ pool_ = ChannelPool
  /\ reactor = ReactorFields
  /\ kern = Kernel
  /\ counters = Metrics
  /\ hooks = Hooks
  /\ loop = IdleLoop("pool", {})
  /\ last_call = NoCall
  /\ RestInit

\* what a ChannelPool call leaves alone
PoolFrame ==
  UNCHANGED <<reactor, kern, counters, hooks, last_call,
              global_metrics, global_metrics_mutex, local_metrics, threads, arrays, buf>>

\* acquire(fd), fd not in the pool
PoolAcquire ==
  /\ loop.pc = "pool"
  /\ \E fd \in PoolFds :
       /\ pool_lookup(pool_, fd) = Nullptr
       /\ LET a == pool_acquire(pool_, fd)
          IN /\ pool_' = a.P
             /\ pool_call' = [op |-> "acquire", fd |-> fd, result |-> a.channel]
  /\ UNCHANGED loop
  /\ PoolFrame

\* acquire(fd), fd already in the pool
PoolAcquireDuplicate ==
  /\ loop.pc = "pool"
  /\ \E fd \in PoolFds :
       /\ pool_lookup(pool_, fd) # Nullptr
       /\ LET a == pool_acquire(pool_, fd)
          IN /\ pool_' = a.P
             /\ pool_call' = [op |-> "acquire", fd |-> fd, result |-> a.channel]
  /\ \E assertions \in BOOLEAN :
       loop' = [loop EXCEPT !.pc = IF assertions THEN "aborted" ELSE "pool"]
  /\ PoolFrame

\* release(fd), fd in the pool
PoolRelease ==
  /\ loop.pc = "pool"
  /\ \E fd \in PoolFds :
       /\ pool_lookup(pool_, fd) # Nullptr
       /\ pool_' = pool_release(pool_, fd)
       /\ pool_call' = [op |-> "release", fd |-> fd, result |-> Nullptr]
  /\ UNCHANGED loop
  /\ PoolFrame

PoolNext == PoolAcquire \/ PoolAcquireDuplicate \/ PoolRelease

PoolSpec == PoolInit /\ [][PoolNext]_vars

\* the step is the call op(fd) on the pool
IsPoolCall(op, fd) == pool_call'.op = op /\ pool_call'.fd = fd /\ PoolNext

\* the step is acquire(fd) for an fd that is in the pool
IsDuplicateAcquire(fd) == IsPoolCall("acquire", fd) /\ pool_lookup(pool_, fd) # Nullptr

\* every slot that is handed out is a slot of an allocated chunk, is on no
\* free stack, and is handed out for one fd only
DistinctSlots ==
  \A fd \in ActiveFds(pool_) :
    LET s == pool_lookup(pool_, fd)
    IN /\ s \in SlotIds
       /\ s[1] \in 1..pool_.nchunks
       /\ pool_.active_[fd].chunk = s[1]
       /\ \A i \in 1..Len(pool_.free_stack_[s[1]]) : pool_.free_stack_[s[1]][i] # s[2]
       /\ \A other \in ActiveFds(pool_) \ {fd} : pool_lookup(pool_, other) # s

\* C12: over any sequence of acquire/release calls in which an fd is live at
\* most once at a time, lookup(fd) returns the slot acquire(fd) returned for
\* as long as fd is not released, whatever chunks are allocated and whatever
\* other fds are released; two live fds never share a slot; and lookup of an
\* fd that was never acquired or has been released returns none.
C12_LookupStable ==
  [][(\A fd \in PoolFds : ~IsDuplicateAcquire(fd)) =>
       /\ DistinctSlots'
       /\ \A fd \in PoolFds :
            /\ IsPoolCall("acquire", fd) =>
                 /\ pool_call'.result # Nullptr
                 /\ pool_lookup(pool_', fd) = pool_call'.result
            /\ IsPoolCall("release", fd) => pool_lookup(pool_', fd) = Nullptr
            /\ ~IsPoolCall("acquire", fd) /\ ~IsPoolCall("release", fd) =>
                 pool_lookup(pool_', fd) = pool_lookup(pool_, fd)]_vars

\* an fd was released from a full chunk while fds of two chunks stay live
C12_Witness ==
  /\ pool_call.op = "release"
  /\ pool_.nchunks >= 2
  /\ \E f, g \in ActiveFds(pool_) : pool_lookup(pool_, f)[1] # pool_lookup(pool_, g)[1]
  /\ \E c \in 1..pool_.nchunks : Len(pool_.free_stack_[c]) = 1

\* C13: acquire(fd) for an fd already in the pool is reported as an
\* invariant violation, a fatal error, and hands out no second slot: the slot
\* popped for the call is back on its chunk's free stack and the map holds
\* only the original entry for fd.
C13_DuplicateFatal ==
  [][\A fd \in PoolFds :
       IsDuplicateAcquire(fd) =>
         /\ loop'.pc = "aborted"
         /\ pool_call'.result = Nullptr
         /\ pool_'.active_ = pool_.active_
         /\ \A c \in 1..pool_.nchunks : pool_'.free_stack_[c] = pool_.free_stack_[c]]_vars

\* a duplicate acquire has returned nullptr to its caller
C13_Witness ==
  /\ loop.pc = "pool"
  /\ pool_call.op = "acquire"
  /\ pool_call.result = Nullptr

(***************************************************************************)
(* Channel slots over their reuse, checked under Spec.                     *)
(***************************************************************************)
\* a Closed slot holds no descriptor and a slot that is not Closed holds one
ClosedIffNoFd ==
  \A s \in SlotIds :
    pool_.slots_[s].socket_state_ = "Closed" <=> pool_.slots_[s].fd_ = NoFd

\* the step attached slot s (it left Closed) or detached it (it became Closed)
AttachedOrDetached(s) ==
  (pool_.slots_[s].socket_state_ = "Closed") # (pool_'.slots_[s].socket_state_ = "Closed")

\* C14: in every reachable state a Closed channel has fd() = -1 and a channel
\* that is not Closed has fd() # -1; right after attach(fd) and right after
\* detach() both RX and TX are empty, so that no byte of a connection is
\* visible to the next connection using the slot.
C14_ClosedHoldsNothing ==
  /\ ClosedIffNoFd
  /\ [][/\ ClosedIffNoFd'
        /\ \A s \in SlotIds :
             AttachedOrDetached(s) =>
               /\ empty(pool_'.slots_[s].tx_buf_)
               /\ empty(pool_'.slots_[s].rx_buf_)]_vars

\* the only connection so far was closed while bytes it had sent were still
\* buffered, its slot is free again, and a second connection is in the backlog
C14_Witness ==
  /\ hooks.on_close = 1
  /\ pool_empty(pool_)
  /\ kern.total_rcvd > kern.total_sent
  /\ kern.nconns = 2
  /\ kern.backlog = 1

(***************************************************************************)
(* on_listener_event when accept4 fails, checked under Spec.               *)
(***************************************************************************)
\* the step is the failing accept4 of on_listener_event with this errno
AcceptFailed(errno) ==
  /\ loop.pc = "accept"
  /\ kern.backlog > 0
  /\ loop' # loop
  /\ kern'.accept_errno = errno

\* m with the counter of key K one higher and every other counter as it was
OneMore(m, K) == [k \in DOMAIN m |-> IF k = K THEN m[k] + 1 ELSE m[k]]

\* C15: when accept fails with EMFILE, ENFILE or ENOBUFS during
\* on_listener_event, exactly the matching net.accept_error.* counter grows by
\* one, the accept burst ends without acquiring a pool slot, and every channel
\* accepted before keeps its state, buffers, pool entry and registration.
C15_AcceptError ==
  [][\A errno \in {"EMFILE", "ENFILE", "ENOBUFS"} :
       AcceptFailed(errno) =>
         /\ counters' = OneMore(counters,
                          CASE errno = "EMFILE" -> "net.accept_error.emfile"
                            [] errno = "ENFILE" -> "net.accept_error.enfile"
                            [] errno = "ENOBUFS" -> "net.accept_error.enobufs")
         /\ loop'.pc = "dispatch"
         /\ kern'.backlog = kern.backlog
         /\ pool_' = pool_
         /\ kern'.sock = kern.sock
         /\ kern'.interest = kern.interest
         /\ kern'.ready = kern.ready
         /\ reactor' = reactor
         /\ hooks' = hooks]_vars

\* accept4 has failed with EMFILE while a channel accepted before it holds
\* received bytes and is still registered
C15_Witness ==
  /\ kern.accept_errno = "EMFILE"
  /\ counters["net.accept_error.emfile"] = 1
  /\ \E fd \in ActiveFds(pool_) :
       /\ pool_.slots_[pool_lookup(pool_, fd)].socket_state_ = "Running"
       /\ ~empty(pool_.slots_[pool_lookup(pool_, fd)].tx_buf_)
       /\ kern.interest[fd].reg

(***************************************************************************)
(* The metrics API called from NThreads threads.  A call that takes        *)
(* global_metrics_mutex is three steps (waiting for the mutex, holding it, *)
(* after it); a write of a thread-local shard is one step.                 *)
(***************************************************************************)
MetricsInit ==
  /\ pool_ = ChannelPool
  /\ reactor = ReactorFields
  /\ kern = Kernel
  /\ counters = Metrics
  /\ hooks = Hooks
  /\ loop = IdleLoop("metrics", {})
  /\ last_call = NoCall
  /\ RestInit

MetricsFrame ==
  UNCHANGED <<pool_, reactor, kern, counters, hooks, loop, last_call, pool_call, arrays,
              buf>>

CounterMT == CHOOSE K \in CounterKeysMT : TRUE

GaugeMT == CHOOSE K \in AdditiveGaugeKeysMT : TRUE

CounterST == CHOOSE K \in CounterKeysST : TRUE

GaugeST == CHOOSE K \in AdditiveGaugeKeysST : TRUE

\* inc_counter<K>() with K an MT key: local_metrics().counters.get<K>() += 1
AddCounterMT(t) ==
  /\ threads[t].pc = "run"
  /\ threads[t].incs < MaxIncs
  /\ local_metrics' = [local_metrics EXCEPT ![t].counters[CounterMT] = u64(@ + 1)]
  /\ threads' = [threads EXCEPT ![t].created = TRUE, ![t].incs = @ + 1,
                                ![t].folded = FALSE]
  /\ UNCHANGED <<global_metrics, global_metrics_mutex>>
  /\ MetricsFrame

\* set_gauge<K>(val) with K an MT key
SetGaugeMT(t) ==
  /\ threads[t].pc = "run"
  /\ \E val \in GaugeVals :
       /\ local_metrics' = [local_metrics EXCEPT
            ![t].additive_gauges[GaugeMT] = AdditiveGaugeShard_set(@, val)]
       /\ threads' = [threads EXCEPT ![t].created = TRUE, ![t].last_set = val,
                                     ![t].folded = FALSE]
  /\ UNCHANGED <<global_metrics, global_metrics_mutex>>
  /\ MetricsFrame

\* flush_thread(min_interval) up to the scoped_lock: the early return, or
\* last = now and local_metrics()
FlushThread(t) ==
  /\ threads[t].pc = "run"
  /\ \E min_interval \in {ExitInterval, DefaultInterval} :
       \/ /\ may_return_early(threads[t], min_interval)
          /\ UNCHANGED threads
       \/ threads' = [threads EXCEPT ![t].pc = "flush_lock", ![t].last_init = TRUE,
                                     ![t].created = TRUE]
  /\ UNCHANGED <<global_metrics, global_metrics_mutex, local_metrics>>
  /\ MetricsFrame

\* std::scoped_lock lock(global_metrics_mutex) of flush_thread
FlushLock(t) ==
  /\ threads[t].pc = "flush_lock"
  /\ global_metrics_mutex = NoThread
  /\ global_metrics_mutex' = t
  /\ threads' = [threads EXCEPT ![t].pc = "flush_sync"]
  /\ UNCHANGED <<global_metrics, local_metrics>>
  /\ MetricsFrame

\* global_metrics.sync_with(local), and the end of the lock's scope
FlushSync(t) ==
  /\ threads[t].pc = "flush_sync"
  /\ global_metrics' = sync_with(global_metrics, local_metrics[t])
  /\ global_metrics_mutex' = NoThread
  /\ threads' = [threads EXCEPT ![t].pc = "flush_post"]
  /\ UNCHANGED local_metrics
  /\ MetricsFrame

\* local.post_sync(); flush_thread returns, to its caller or into the end of
\* the thread
FlushPostSync(t) ==
  /\ threads[t].pc = "flush_post"
  /\ local_metrics' = [local_metrics EXCEPT ![t] = post_sync(@)]
  /\ threads' = [threads EXCEPT ![t].pc = IF threads[t].exiting THEN "exited" ELSE "run",
                                ![t].folded = TRUE]
  /\ UNCHANGED <<global_metrics, global_metrics_mutex>>
  /\ MetricsFrame

\* the thread ends: ~ThreadLocalMetrics runs if the shard was ever created
ThreadExit(t) ==
  /\ threads[t].pc = "run"
  /\ IF ~threads[t].created
     THEN threads' = [threads EXCEPT ![t].pc = "exited"]
     ELSE \/ /\ may_return_early(threads[t], ExitInterval)
             /\ threads' = [threads EXCEPT ![t].pc = "exited"]
          \/ threads' = [threads EXCEPT ![t].pc = "flush_lock", ![t].exiting = TRUE,
                                        ![t].last_init = TRUE]
  /\ UNCHANGED <<global_metrics, global_metrics_mutex, local_metrics>>
  /\ MetricsFrame

\* get_counter<K>() / get_gauge<K>(): the call, waiting for the mutex
GetMetric(t) ==
  /\ threads[t].pc = "run"
  /\ threads' = [threads EXCEPT ![t].pc = "get_lock"]
  /\ UNCHANGED <<global_metrics, global_metrics_mutex, local_metrics>>
  /\ MetricsFrame

GetLock(t) ==
  /\ threads[t].pc = "get_lock"
  /\ global_metrics_mutex = NoThread
  /\ global_metrics_mutex' = t
  /\ threads' = [threads EXCEPT ![t].pc = "get_read"]
  /\ UNCHANGED <<global_metrics, local_metrics>>
  /\ MetricsFrame

\* the slot is read and returned, and the lock's scope ends
GetRead(t) ==
  /\ threads[t].pc = "get_read"
  /\ global_metrics_mutex' = NoThread
  /\ threads' = [threads EXCEPT ![t].pc = "run"]
  /\ UNCHANGED <<global_metrics, local_metrics>>
  /\ MetricsFrame

MetricsNext ==
  \E t \in Threads :
    \/ AddCounterMT(t)
    \/ SetGaugeMT(t)
    \/ FlushThread(t)
    \/ FlushLock(t)
    \/ FlushSync(t)
    \/ FlushPostSync(t)
    \/ ThreadExit(t)
    \/ GetMetric(t)
    \/ GetLock(t)
    \/ GetRead(t)

MetricsSpec == MetricsInit /\ [][MetricsNext]_vars

\* the sum of f over the threads of S
RECURSIVE SumOver(_, _)
SumOver(f, S) ==
  IF S = {} THEN 0
  ELSE LET t == CHOOSE x \in S : TRUE IN f[t] + SumOver(f, S \ {t})

\* every thread has completed a fold since its last write of its shard
AllFolded == \A t \in Threads : threads[t].folded

\* C16: for every interleaving of N threads each performing M increments of an
\* MT counter key, with any number of flush_thread calls in between, once each
\* thread has done a final fold the global counter that get_counter reads is
\* N*M; more generally it is the number of increments made so far whenever
\* every thread has folded since its last increment.
C16_NoIncrementLost ==
  /\ AllFolded =>
       global_metrics.counters[CounterMT] = u64(SumOver([t \in Threads |-> threads[t].incs], Threads))
  /\ (AllFolded /\ \A t \in Threads : threads[t].incs = MaxIncs) =>
       global_metrics.counters[CounterMT] = NThreads * MaxIncs

\* a thread is inside get_counter, holding the mutex, after every thread made
\* its M increments, folded in between and folded at the end
C16_Witness ==
  /\ \E r \in Threads : threads[r].pc = "get_read"
  /\ AllFolded
  /\ \A t \in Threads : threads[t].incs = MaxIncs /\ threads[t].pc # "exited"
  /\ global_metrics.counters[CounterMT] = NThreads * MaxIncs

\* C17: when each thread sets an MT additive gauge any number of times, folds
\* in between and ends with set_gauge(v_i) and a fold, from a reset global and
\* shards whose last-synced value is 0, the global gauge that get_gauge reads
\* is the sum of the v_i modulo 2^Bits, also when values reach 2^Bits - 1 and
\* a fold's delta is negative.
C17_GaugeIsSum ==
  AllFolded =>
    global_metrics.additive_gauges[GaugeMT] =
      u64(SumOver([t \in Threads |-> threads[t].last_set], Threads))

\* a thread is inside get_gauge after one thread's last fold had a negative
\* delta (it had folded the largest value and then set 1) and the others'
\* last values are the largest one: the sum wraps
C17_Witness ==
  /\ \E r \in Threads : threads[r].pc = "get_read"
  /\ AllFolded
  /\ \E t \in Threads :
       /\ threads[t].last_set = 1
       /\ local_metrics[t].additive_gauges[GaugeMT].last_synced_ = 1
       /\ \A o \in Threads \ {t} : threads[o].last_set = Wrap - 1
  /\ global_metrics.additive_gauges[GaugeMT] = u64(1 + (NThreads - 1) * (Wrap - 1))
  /\ global_metrics.additive_gauges[GaugeMT] < 1 + (NThreads - 1) * (Wrap - 1)

\* C19: a thread that increments MT counters or sets MT gauges and ends without
\* calling flush_thread afterwards has its shard folded at its end, however
\* recently it last folded: once every thread has ended the global totals hold
\* every thread's contribution.
C19_ExitFolds ==
  (\A t \in Threads : threads[t].pc = "exited") =>
    /\ global_metrics.counters[CounterMT] =
         u64(SumOver([t \in Threads |-> threads[t].incs], Threads))
    /\ global_metrics.additive_gauges[GaugeMT] =
         u64(SumOver([t \in Threads |-> threads[t].last_set], Threads))

\* every thread has made its increments, set its gauge and ended through the
\* fold of ~ThreadLocalMetrics
C19_Witness ==
  /\ \A t \in Threads :
       /\ threads[t].pc = "exited"
       /\ threads[t].exiting
       /\ threads[t].incs = MaxIncs
       /\ threads[t].last_set = 1
  /\ global_metrics.counters[CounterMT] = NThreads * MaxIncs

(***************************************************************************)
(* Writers and readers of global_metrics.  The ST keys are written by the  *)
(* reactor thread alone; a write of a global slot is two steps, its        *)
(* beginning and its end, so that what overlaps it can be seen.  A write   *)
(* that overlaps another write of the same slot is a data race: the slot   *)
(* ends with either writer's value.                                        *)
(***************************************************************************)
ReactorThread == CHOOSE t \in Threads : \A o \in Threads : t <= o

\* the positions at which a thread is writing slots of global_metrics
WritingPcs == {"flush_sync", "st_add", "st_set", "reset"}

\* add_counter<K>(1) with K an ST key: global_metrics.counters.get<K>() += 1
AddCounterST(t) ==
  /\ t = ReactorThread
  /\ threads[t].pc = "run"
  /\ threads' = [threads EXCEPT ![t].pc = "st_add"]
  /\ UNCHANGED <<global_metrics, global_metrics_mutex, local_metrics>>
  /\ MetricsFrame

AddCounterSTEnd(t) ==
  /\ threads[t].pc = "st_add"
  /\ \E n \in {u64(global_metrics.counters[CounterST] + 1)} \cup
              (IF \E o \in Threads : threads[o].pc = "reset" THEN {0, 1} ELSE {}) :
       global_metrics' = [global_metrics EXCEPT !.counters[CounterST] = n]
  /\ threads' = [threads EXCEPT ![t].pc = "run"]
  /\ UNCHANGED <<global_metrics_mutex, local_metrics>>
  /\ MetricsFrame

\* set_gauge<K>(val) with K an ST key: global_metrics.additive_gauges.get<K>() = val
\* (val is kept in last_set while the write is in progress)
SetGaugeST(t) ==
  /\ t = ReactorThread
  /\ threads[t].pc = "run"
  /\ \E val \in GaugeVals \ {0} :
       threads' = [threads EXCEPT ![t].pc = "st_set", ![t].last_set = val]
  /\ UNCHANGED <<global_metrics, global_metrics_mutex, local_metrics>>
  /\ MetricsFrame

SetGaugeSTEnd(t) ==
  /\ threads[t].pc = "st_set"
  /\ \E n \in {threads[t].last_set} \cup
              (IF \E o \in Threads : threads[o].pc = "reset" THEN {0} ELSE {}) :
       global_metrics' = [global_metrics EXCEPT !.additive_gauges[GaugeST] = n]
  /\ threads' = [threads EXCEPT ![t].pc = "run", ![t].last_set = 0]
  /\ UNCHANGED <<global_metrics_mutex, local_metrics>>
  /\ MetricsFrame

\* global_reset(): the call, waiting for the mutex
GlobalReset(t) ==
  /\ threads[t].pc = "run"
  /\ threads' = [threads EXCEPT ![t].pc = "reset_lock"]
  /\ UNCHANGED <<global_metrics, global_metrics_mutex, local_metrics>>
  /\ MetricsFrame

GlobalResetLock(t) ==
  /\ threads[t].pc = "reset_lock"
  /\ global_metrics_mutex = NoThread
  /\ global_metrics_mutex' = t
  /\ threads' = [threads EXCEPT ![t].pc = "reset"]
  /\ UNCHANGED <<global_metrics, local_metrics>>
  /\ MetricsFrame

\* global_metrics = GlobalMetrics(), and the end of the lock's scope
GlobalResetEnd(t) ==
  /\ threads[t].pc = "reset"
  /\ \E c \in {0} \cup (IF threads[ReactorThread].pc = "st_add"
                        THEN {global_metrics.counters[CounterST]} ELSE {}),
        g \in {0} \cup (IF threads[ReactorThread].pc = "st_set"
                        THEN {global_metrics.additive_gauges[GaugeST]} ELSE {}) :
       global_metrics' = [GlobalMetrics EXCEPT !.counters[CounterST] = c,
                                               !.additive_gauges[GaugeST] = g]
  /\ global_metrics_mutex' = NoThread
  /\ threads' = [threads EXCEPT ![t].pc = "run"]
  /\ UNCHANGED local_metrics
  /\ MetricsFrame

GlobalNext ==
  \E t \in Threads :
    \/ AddCounterMT(t)
    \/ FlushThread(t)
    \/ FlushLock(t)
    \/ FlushSync(t)
    \/ FlushPostSync(t)
    \/ AddCounterST(t)
    \/ AddCounterSTEnd(t)
    \/ SetGaugeST(t)
    \/ SetGaugeSTEnd(t)
    \/ GlobalReset(t)
    \/ GlobalResetLock(t)
    \/ GlobalResetEnd(t)
    \/ GetMetric(t)
    \/ GetLock(t)
    \/ GetRead(t)

GlobalSpec == MetricsInit /\ [][GlobalNext]_vars

\* C18: every write of the global totals (the fold of flush_thread,
\* add_counter and set_gauge on ST keys, global_reset) happens while the
\* writing thread holds global_metrics_mutex, so that a get_counter or
\* get_gauge, which holds the mutex while it reads, never reads while another
\* thread is writing.
C18_WritesUnderMutex ==
  /\ \A t \in Threads : threads[t].pc \in WritingPcs => global_metrics_mutex = t
  /\ \A r \in Threads, t \in Threads :
       (r # t /\ threads[r].pc = "get_read") => threads[t].pc \notin WritingPcs

\* the folds and global_reset do hold the mutex while they write
LockedWriters ==
  \A t \in Threads :
    threads[t].pc \in {"flush_sync", "reset"} => global_metrics_mutex = t

\* a thread is reading inside get_counter, holding the mutex, while the reactor
\* thread is in the middle of add_counter on an ST key
C18_Witness ==
  \E r \in Threads :
    /\ r # ReactorThread
    /\ threads[r].pc = "get_read"
    /\ global_metrics_mutex = r
    /\ threads[ReactorThread].pc = "st_add"

(***************************************************************************)
(* key_array::operator+= on its own: left += right for arrays of every key *)
(* order over KeyArrayKeys with the keys of right among those of left.     *)
(***************************************************************************)
KeyArrayKeys == TestCounterKeys \cup {"testc.bar_mt"}

\* what a slot holds
SlotVals == {0, 1, Wrap - 1}

\* the key_sets over S: every order of every subset
KeySets(S) ==
  {s \in UNION {[1..n -> S] : n \in 0..Cardinality(S)} :
     \A i \in DOMAIN s, j \in DOMAIN s : i # j => s[i] # s[j]}

KeyArrays(S) ==
  UNION {{[keys |-> ks, data |-> d] : d \in [DOMAIN ks -> SlotVals]} : ks \in KeySets(S)}

KeyArrayInit ==
  /\ pool_ = ChannelPool
  /\ reactor = ReactorFields
  /\ kern = Kernel
  /\ counters = Metrics
  /\ hooks = Hooks
  /\ loop = IdleLoop("key_array", {})
  /\ last_call = NoCall
  /\ pool_call = NoPoolCall
  /\ global_metrics = GlobalMetrics
  /\ global_metrics_mutex = NoThread
  /\ local_metrics = [t \in Threads |-> ThreadLocalMetrics]
  /\ threads = [t \in Threads |-> IdleThread]
  /\ buf = NoBuf
  /\ \E a \in KeyArrays(KeyArrayKeys) :
       /\ a.keys # <<>>
       /\ \E other \in KeyArrays(KeysOf(a)) :
            arrays = [left |-> a, right |-> other, sum |-> a, done |-> FALSE]

\* left += right
PlusEq ==
  /\ ~arrays.done
  /\ arrays' = [arrays EXCEPT !.sum = operator_plus_eq(arrays.left, arrays.right),
                              !.done = TRUE]
  /\ UNCHANGED <<pool_, reactor, kern, counters, hooks, loop, last_call, pool_call,
                 global_metrics, global_metrics_mutex, local_metrics, threads, buf>>

KeyArrayNext == PlusEq

KeyArraySpec == KeyArrayInit /\ [][KeyArrayNext]_vars

\* the arrays have the keys of GlobalMetrics::counters and of
\* ThreadLocalMetrics::counters
IsCountersFold ==
  /\ KeysOf(arrays.left) = TestCounterKeys
  /\ KeysOf(arrays.right) = CounterKeysMT

\* C20: adding a keyed array whose keys are a subset of the left array's keys
\* increases each shared slot by the right array's value for that key and
\* leaves every other slot unchanged; in particular the fold
\* global.counters += shard.counters changes only MT slots of the global and
\* never an ST slot.
C20_PlusEqFrame ==
  arrays.done =>
    /\ arrays.sum.keys = arrays.left.keys
    /\ DOMAIN arrays.sum.data = DOMAIN arrays.left.data
    /\ \A K \in KeysOf(arrays.left) :
         get(arrays.sum, K) =
           IF K \in KeysOf(arrays.right)
           THEN u64(get(arrays.left, K) + get(arrays.right, K))
           ELSE get(arrays.left, K)
    /\ IsCountersFold =>
         \A K \in CounterKeysST : get(arrays.sum, K) = get(arrays.left, K)
    /\ slots_by_key(arrays.sum) =
         key_array_plus(slots_by_key(arrays.left), slots_by_key(arrays.right))

\* the counters of a shard have been added to the counters of the global: the
\* MT key is second in the global and first in the shard, its slot wrapped, and
\* the ST slot held a count
C20_Witness ==
  /\ arrays.done
  /\ IsCountersFold
  /\ index_of(arrays.left.keys, CounterMT) = 2
  /\ index_of(arrays.right.keys, CounterMT) = 1
  /\ get(arrays.left, CounterST) = 1
  /\ get(arrays.left, CounterMT) = 1
  /\ get(arrays.right, CounterMT) = Wrap - 1
  /\ get(arrays.sum, CounterMT) = 0

(***************************************************************************)
(* SimpleBuffer<BufCap> on its own, called in every order with every       *)
(* argument up to MaxArg, also those its comments forbid (commit and       *)
(* consume of more than the span handed out).                              *)
(***************************************************************************)
BufBytes == {1, 2}

\* the byte strings a caller passes or stores into a span
ByteSeqs(maxlen) == UNION {[1..n -> BufBytes] : n \in 0..maxlen}

\* the readable bytes of b
readable(b) == SubSeq(b.buf_, 1, b.offset_)

BufferInit ==
  /\ pool_ = ChannelPool
  /\ reactor = ReactorFields
  /\ kern = Kernel
  /\ counters = Metrics
  /\ hooks = Hooks
  /\ loop = IdleLoop("buffer", {})
  /\ last_call = NoCall
  /\ RestInit

BufferFrame ==
  UNCHANGED <<pool_, reactor, kern, counters, hooks, loop, last_call, pool_call,
              global_metrics, global_metrics_mutex, local_metrics, threads, arrays>>

\* the bytes that a call made readable: those between the old and the new offset_
appended(old, new) ==
  IF new.offset_ > old.offset_
  THEN SubSeq(new.buf_, old.offset_ + 1, Min(new.offset_, capacity(new)))
  ELSE <<>>

Fit(n, span, space) ==
  IF n <= span THEN "span" ELSE IF n <= space THEN "space" ELSE "over"

\* n = b.write_from(src)
BufWriteFrom(src) ==
  LET w == write_from(buf.b, src)
  IN /\ buf.only_wr => Len(buf.written) + w.n <= MaxWritten
     /\ buf' = [buf EXCEPT !.b = w.b,
                           !.written = IF buf.only_wr THEN @ \o appended(buf.b, w.b) ELSE <<>>,
                           !.call = [op |-> "write_from",
                                     fit |-> Fit(Len(src), free_space(buf.b),
                                                 free_space(buf.b))]]
     /\ BufferFrame

\* n = b.read_into(dst), dst of dstlen bytes
BufReadInto(dstlen) ==
  LET r == read_into(buf.b, dstlen)
  IN /\ buf' = [buf EXCEPT !.b = r.b,
                           !.read = IF buf.only_wr THEN @ \o r.out ELSE <<>>,
                           !.call = [op |-> "read_into",
                                     fit |-> Fit(dstlen, used_space(buf.b),
                                                 used_space(buf.b))]]
     /\ BufferFrame

\* w = b.writable_span(max_len); the caller stores data into w; b.commit(k)
BufCommit(max_len, data, k) ==
  LET len == writable_span(buf.b, max_len)
      stored == memcpy_in(buf.b, buf.b.offset_, data, len)
      after == commit(stored, k)
  IN /\ Len(data) = len
     /\ buf' = [buf EXCEPT !.b = after,
                           !.written = <<>>,
                           !.read = <<>>,
                           !.only_wr = FALSE,
                           !.call = [op |-> "commit",
                                     fit |-> Fit(k, len, free_space(buf.b))]]
     /\ BufferFrame

\* r = b.readable_span(max_len); b.consume(k)
BufConsume(max_len, k) ==
  LET after == consume(buf.b, k)
  IN /\ buf' = [buf EXCEPT !.b = after,
                           !.written = <<>>,
                           !.read = <<>>,
                           !.only_wr = FALSE,
                           !.call = [op |-> "consume",
                                     fit |-> Fit(k, Len(readable_span(buf.b, max_len)),
                                                 used_space(buf.b))]]
     /\ BufferFrame

\* b.clear()
BufClear ==
  /\ buf' = [buf EXCEPT !.b = clear(buf.b),
                        !.written = <<>>,
                        !.read = <<>>,
                        !.only_wr = FALSE,
                        !.call = [op |-> "clear", fit |-> "span"]]
  /\ BufferFrame

BufferNext ==
  \/ \E src \in ByteSeqs(MaxArg) : BufWriteFrom(src)
  \/ \E dstlen \in 0..MaxArg : BufReadInto(dstlen)
  \/ \E max_len \in 0..MaxArg, data \in ByteSeqs(BufCap), k \in 0..MaxArg :
       BufCommit(max_len, data, k)
  \/ \E max_len \in 0..MaxArg, k \in 0..MaxArg : BufConsume(max_len, k)
  \/ BufClear

BufferSpec == BufferInit /\ [][BufferNext]_vars

\* C21: after any sequence of SimpleBuffer operations with arbitrary
\* arguments, also commit(n) with n above the free space and consume(n) with n
\* above the used space, 0 <= used_space() <= capacity() and
\* used_space() + free_space() = capacity().
C21_UsedPlusFree ==
  /\ 0 <= used_space(buf.b)
  /\ used_space(buf.b) <= capacity(buf.b)
  /\ 0 <= free_space(buf.b)
  /\ used_space(buf.b) + free_space(buf.b) = capacity(buf.b)
  /\ capacity(buf.b) = BufCap

\* commit was called with more than the free space on a buffer that held a
\* byte, and filled it
C21_Witness ==
  /\ buf.call.op = "commit"
  /\ buf.call.fit = "over"
  /\ full(buf.b)
  /\ buf.b.buf_[1] # 0

\* s is a prefix of t
IsPrefix(s, t) == Len(s) <= Len(t) /\ s = SubSeq(t, 1, Len(s))

\* C22: for any sequence of write_from and read_into calls on a fresh
\* SimpleBuffer, each write_from accepts exactly the first
\* min(|src|, free_space()) bytes of its input and returns that count (0 on a
\* full buffer, which is left unchanged), each read_into returns
\* min(|dst|, used_space()) bytes, and the bytes read so far are, in order, a
\* prefix of the bytes accepted so far, the two being equal whenever the buffer
\* is empty.
C22_Fifo ==
  /\ buf.only_wr => IsPrefix(buf.read, buf.written)
  /\ [][/\ buf'.only_wr =>
             /\ IsPrefix(buf'.read, buf'.written)
             /\ empty(buf'.b) => buf'.read = buf'.written
        /\ \A src \in ByteSeqs(MaxArg) :
             (buf.only_wr /\ buf'.call.op = "write_from" /\ BufWriteFrom(src)) =>
               LET n == Min(Len(src), free_space(buf.b))
               IN /\ write_from(buf.b, src).n = n
                  /\ readable(buf'.b) = readable(buf.b) \o SubSeq(src, 1, n)
                  /\ buf'.written = buf.written \o SubSeq(src, 1, n)
                  /\ full(buf.b) => (n = 0 /\ buf'.b = buf.b)
        /\ \A dstlen \in 0..MaxArg :
             (buf.only_wr /\ buf'.call.op = "read_into" /\ BufReadInto(dstlen)) =>
               LET r == read_into(buf.b, dstlen)
                   n == Min(dstlen, used_space(buf.b))
               IN /\ r.n = n
                  /\ r.out = SubSeq(readable(buf.b), 1, n)
                  /\ readable(buf'.b) = SubSeq(readable(buf.b), n + 1, used_space(buf.b))
                  /\ buf'.read = buf.read \o r.out]_vars

\* only write_from and read_into have been called: a write_from was cut short
\* on a buffer from which bytes had been read before, and filled it
C22_Witness ==
  /\ buf.only_wr
  /\ buf.call.op = "write_from"
  /\ buf.call.fit = "over"
  /\ full(buf.b)
  /\ Len(buf.read) > 0
  /\ buf.written = buf.read \o readable(buf.b)

\* C23: writable_span(m) has length min(m, free_space()), and a following
\* commit(k) with k at most that length increases used_space() by exactly k and
\* makes the k bytes stored into the span readable directly after the bytes held
\* before; readable_span(m) has length min(m, used_space()), and a following
\* consume(k) with k at most that length decreases used_space() by exactly k.
C23_SpanCommit ==
  [][/\ \A max_len \in 0..MaxArg, data \in ByteSeqs(BufCap), k \in 0..MaxArg :
          (/\ buf'.call.op = "commit"
           /\ Len(data) = writable_span(buf.b, max_len)
           /\ k <= writable_span(buf.b, max_len)
           /\ BufCommit(max_len, data, k)) =>
            /\ writable_span(buf.b, max_len) = Min(max_len, free_space(buf.b))
            /\ used_space(buf'.b) = used_space(buf.b) + k
            /\ readable(buf'.b) = readable(buf.b) \o SubSeq(data, 1, k)
     /\ \A max_len \in 0..MaxArg, k \in 0..MaxArg :
          (/\ buf'.call.op = "consume"
           /\ k <= Len(readable_span(buf.b, max_len))
           /\ BufConsume(max_len, k)) =>
            /\ Len(readable_span(buf.b, max_len)) = Min(max_len, used_space(buf.b))
            /\ IsPrefix(readable_span(buf.b, max_len), readable(buf.b))
            /\ used_space(buf'.b) = used_space(buf.b) - k]_vars

\* a commit of no more than its span has filled the buffer with two bytes that
\* differ
C23_Witness ==
  /\ buf.call.op = "commit"
  /\ buf.call.fit = "span"
  /\ full(buf.b)
  /\ buf.b.buf_[BufCap - 1] # 0
  /\ buf.b.buf_[BufCap] # 0
  /\ buf.b.buf_[BufCap - 1] # buf.b.buf_[BufCap]

\* C24: consume(k) changes nothing when k = 0, empties the buffer when
\* k >= used_space(), and otherwise makes the bytes that were at offsets
\* [k, used) the readable bytes at offsets [0, used - k) in the same order, so
\* that a later write_from appends directly after them.
C24_Consume ==
  [][/\ \A max_len \in 0..MaxArg, k \in 0..MaxArg :
          (buf'.call.op = "consume" /\ BufConsume(max_len, k)) =>
            /\ k = 0 => buf'.b = buf.b
            /\ k >= used_space(buf.b) => empty(buf'.b)
            /\ (0 < k /\ k < used_space(buf.b)) =>
                 /\ used_space(buf'.b) = used_space(buf.b) - k
                 /\ \A i \in 1..(used_space(buf.b) - k) : buf'.b.buf_[i] = buf.b.buf_[i + k]
     /\ \A src \in ByteSeqs(MaxArg) :
          (buf.call.op = "consume" /\ buf'.call.op = "write_from" /\ BufWriteFrom(src)) =>
            readable(buf'.b) =
              readable(buf.b) \o SubSeq(src, 1, Min(Len(src), free_space(buf.b)))]_vars

\* a consume has taken the first byte of a full buffer: the two bytes behind it,
\* which differ, are now the first two (memmove leaves the last one where it was
\* too)
C24_Witness ==
  /\ buf.call.op = "consume"
  /\ used_space(buf.b) = BufCap - 1
  /\ buf.b.buf_[1] # 0
  /\ buf.b.buf_[2] # 0
  /\ buf.b.buf_[1] # buf.b.buf_[2]
  /\ buf.b.buf_[BufCap] = buf.b.buf_[BufCap - 1]

(***************************************************************************)
(* try_flush_tx_buffer and try_fill_rx_buffer when send or recv does not   *)
(* succeed, checked under Spec.                                            *)
(***************************************************************************)
InFlush == loop.pc \in {"dflush", "oflush"}

\* C25: try_flush_tx_buffer returns as soon as send reports EAGAIN or
\* EWOULDBLOCK or TX becomes empty: after a would-block result the loop thread
\* is no longer inside that flush (it issues no further send, the unsent bytes
\* stay in TX), so that it never spins waiting for the socket to become
\* writable.
C25_ReturnsOnWouldBlock == ~(InFlush /\ loop.would_block)

\* a send of the flush in progress has returned EAGAIN, the channel is Running
\* with the unsent bytes in TX, and the loop thread is about to send again
C25_Witness ==
  /\ InFlush
  /\ loop.would_block
  /\ pool_.slots_[loop.channel].socket_state_ = "Running"
  /\ ~empty(pool_.slots_[loop.channel].tx_buf_)
  /\ kern.sock[loop.client_fd].outn = SndCap

\* the step is a recv or send on the loop's channel failing with an errno other
\* than EAGAIN: the only way a channel becomes Aborting inside
\* try_fill_rx_buffer or try_flush_tx_buffer
IoFailure ==
  /\ loop.pc \in {"fill", "dflush", "oflush"}
  /\ pool_.slots_[loop.channel].socket_state_ # "Aborting"
  /\ pool_'.slots_[loop.channel].socket_state_ = "Aborting"

\* C26: when recv or send on a channel fails with an errno other than EINTR,
\* EAGAIN or EWOULDBLOCK, the channel becomes Aborting, the descriptor is shut
\* down in both directions, on_error is invoked exactly once for that failure,
\* and the pull or flush in progress stops without another recv or send on
\* that channel.
C26_IoFailure ==
  [][IoFailure =>
       /\ kern'.sock[loop.client_fd].shut_rd
       /\ kern'.sock[loop.client_fd].shut_wr
       /\ hooks'.on_error = hooks.on_error + 1
       /\ loop'.pc \notin {"dflush", "oflush"}
       /\ loop'.pc = "fill" => ~loop'.entered]_vars

\* what does hold at such a failure: the channel is Aborting, shut down in both
\* directions, and a pull (not a flush) stops
IoFailureHandled ==
  [][IoFailure =>
       /\ kern'.sock[loop.client_fd].shut_rd
       /\ kern'.sock[loop.client_fd].shut_wr
       /\ loop.pc = "fill" => (loop'.pc \notin {"dflush", "oflush"} /\ ~loop'.entered)]_vars

\* a recv has failed on a channel that is now Aborting, and on_error has never
\* been invoked
C26_Witness ==
  /\ loop.pc \notin {"dflush", "oflush", "fill"}
  /\ loop.channel # Nullptr
  /\ pool_.slots_[loop.channel].socket_state_ = "Aborting"
  /\ hooks.on_error = 0
  /\ kern.nfail > 0
  /\ "EPOLLERR" \notin loop.event_mask
  /\ "EPOLLHUP" \notin loop.event_mask

(***************************************************************************)
(* SessionSpec: one client whose connection stays open (no half-close, no  *)
(* failure) served by a reactor that nobody shuts down.  The client writes *)
(* a stream of LongBytes bytes, longer than each of the channel's buffers; *)
(* the loop thread keeps running and the peer eventually reads what was    *)
(* sent to it.                                                             *)
(***************************************************************************)
ServeNext ==
  \/ AddListener \/ PollWait \/ Run
  \/ OnChannelEvent \/ FillStep \/ FlushStep \/ HandleEventsTail \/ AfterHandleEvents
  \/ OnListenerEvent \/ AcceptStep

SessionNext ==
  \/ ServeNext
  \/ SoleConnect
  \/ \E fd \in ClientFds : LongWrite(fd)
  \/ \E fd \in ClientFds : PeerRead(fd)

SessionSpec ==
  /\ Init
  /\ [][SessionNext]_vars
  /\ WF_vars(ServeNext)
  /\ \A fd \in ClientFds : WF_vars(PeerRead(fd))

\* the peer keeps its connection open and the channel is live: no half-close,
\* no failure, no shutdown of the reactor
Intact(fd) ==
  /\ kern.sock[fd].open
  /\ ~kern.sock[fd].dead
  /\ ~kern.sock[fd].fin
  /\ ~reactor.shutting_down_

\* the channel has received bytes on an intact connection that it has not sent
\* back yet
Unechoed(fd) == Intact(fd) /\ Len(kern.sock[fd].rcvd) > Len(kern.sock[fd].sent)

\* C27: with the Echo protocol and a peer that keeps its connection open and
\* eventually reads everything sent to it, every byte the channel has received
\* is eventually sent back: whenever received bytes are still unsent, a moment
\* follows at which everything received so far has been sent (or the
\* connection is no longer intact), so no byte stays in RX or TX for ever.
C27_EchoedBack == (\E fd \in ClientFds : Unechoed(fd)) ~> (\A fd \in ClientFds : ~Unechoed(fd))

\* a stream longer than RX and than TX was received and sent back whole on an
\* intact connection, RX and TX being empty
C27_Witness ==
  \E fd \in ClientFds :
    /\ Intact(fd)
    /\ Len(kern.sock[fd].rcvd) = LongBytes
    /\ kern.sock[fd].sent = kern.sock[fd].rcvd
    /\ empty(ChannelOf(fd).rx_buf_)
    /\ empty(ChannelOf(fd).tx_buf_)

(***************************************************************************)
(* The drain loop of handle_events.  UnreadSpec is SessionSpec without the *)
(* assumption that the peer reads: the loop thread keeps running, the peer *)
(* writes at most LongBytes bytes and reads when it likes, if ever.        *)
(***************************************************************************)
UnreadSpec ==
  /\ Init
  /\ [][SessionNext]_vars
  /\ WF_vars(ServeNext)

\* the loop thread is inside the for (;;) of handle_events
InDrainLoop == loop.pc \in {"fill", "dflush"}

\* C28: the drain loop ends at the first iteration in which recv delivered
\* nothing and the protocol consumed nothing, so that, the peer having only
\* finitely many bytes pending, handle_events terminates whatever the protocol
\* does: a loop thread inside the drain loop eventually leaves it.
C28_DrainTerminates == InDrainLoop ~> ~InDrainLoop

\* the peer has nothing pending and does not read; the loop thread is in step 3
\* of the drain loop, inside try_flush_tx_buffer, after a send that returned
\* EAGAIN
C28_Witness ==
  /\ loop.pc = "dflush"
  /\ loop.would_block
  /\ Intact(loop.client_fd)
  /\ kern.sock[loop.client_fd].inq = <<>>
  /\ kern.sock[loop.client_fd].pw = LongBytes

(***************************************************************************)
(* EventsSpec: on_channel_event and handle_events called with every        *)
(* readiness mask on a channel in every state its interface leads to.  The *)
(* channel is the one accept4 and attach give for the first client; the    *)
(* protocol has left bytes in RX and queued bytes in TX through ChannelIO, *)
(* the peer may have half-closed, bytes are pending in the socket and in   *)
(* the peer's window.  While the event is served the peer may read and the *)
(* connection may fail.                                                    *)
(***************************************************************************)
EventFd == lowest_free_fd(Kernel)

\* the reactor after add_listener and one accepted connection, on client_fd
Accepted(client_fd) ==
  accept_one([pool_ |-> ChannelPool,
              reactor |-> [ReactorFields EXCEPT !.listener_fd_ = ListenFd],
              kern |-> [Kernel EXCEPT !.listen_reg = TRUE, !.backlog = 1, !.nconns = 1],
              counters |-> Metrics,
              hooks |-> Hooks],
             client_fd, TRUE)

EventsInit ==
  \E rx \in ByteSeqs(RX_BUF_SIZE), tx \in ByteSeqs(TX_BUF_SIZE), eof \in BOOLEAN,
     npending \in 0..MaxBytes, outn \in 0..SndCap, event_mask \in SUBSET EventFlags :
    LET w0 == Accepted(EventFd)
        s == pool_lookup(w0.pool_, EventFd)
        ch0 == w0.pool_.slots_[s]
        ch1 == IF rx = <<>> THEN ch0 ELSE fill_commit(ch0, rx, Len(rx))
        ch2 == tx_send(ch1, tx).ch
        ch3 == IF eof THEN fill_eof(ch2) ELSE ch2
    IN /\ event_mask # {}
       /\ pool_ = [w0.pool_ EXCEPT !.slots_[s] = ch3]
       /\ reactor = w0.reactor
       /\ kern = [w0.kern EXCEPT !.sock[EventFd].inq = [i \in 1..npending |-> i],
                                       !.sock[EventFd].pw = npending,
                                       !.sock[EventFd].fin = eof,
                                       !.sock[EventFd].outn = outn,
                                       !.ready = {}]
       /\ counters = Metrics
       /\ hooks = Hooks
       /\ loop = IdleLoop("dispatch", {[fd |-> EventFd, events |-> event_mask]})
       /\ last_call = NoCall
       /\ RestInit

EventsNext ==
  \/ OnChannelEvent \/ FillStep \/ FlushStep \/ HandleEventsTail \/ AfterHandleEvents
  \/ \E fd \in ClientFds : PeerRead(fd)
  \/ \E fd \in ClientFds : ConnFail(fd)

EventsSpec == EventsInit /\ [][EventsNext]_vars

(***************************************************************************)
(* handle_events by readiness mask.                                        *)
(***************************************************************************)
\* EPOLLOUT without EPOLLIN, EPOLLHUP, EPOLLRDHUP or EPOLLERR
WriteOnly(event_mask) ==
  /\ "EPOLLOUT" \in event_mask
  /\ event_mask \cap {"EPOLLIN", "EPOLLHUP", "EPOLLRDHUP", "EPOLLERR"} = {}

\* the send the flush is about to issue fails with an errno other than EAGAIN
SendFails ==
  LET ch == pool_.slots_[loop.channel]
      r == k_send(kern, ch.fd_, readable_span(ch.tx_buf_, capacity(ch.tx_buf_)))
  IN r.rc < 0 /\ r.errno # "EAGAIN"

\* a step of on_channel_event up to the return of handle_events, the mask
\* being write-only
WriteOnlyStep ==
  \/ /\ loop.pc = "dispatch"
     /\ WriteOnly(loop'.event_mask)
     /\ OnChannelEvent
  \/ /\ loop.pc \in {"oflush", "tail"}
     /\ WriteOnly(loop.event_mask)
     /\ FlushStep \/ HandleEventsTail

\* C29: when handle_events is called with write readiness only (EPOLLOUT
\* without EPOLLIN, EPOLLHUP, EPOLLRDHUP or EPOLLERR) only the TX flush runs:
\* no recv is issued, on_read is not invoked (RX and TX hold what they held, but
\* for the bytes sent), and the RX buffer and the socket state are unchanged
\* unless send fails.
C29_WriteOnly ==
  [][WriteOnlyStep =>
       LET s == loop'.channel
           fd == loop'.client_fd
       IN /\ loop'.pc \in {"oflush", "tail", "post"}
          /\ kern'.sock[fd].inq = kern.sock[fd].inq
          /\ kern'.sock[fd].rcvd = kern.sock[fd].rcvd
          /\ pool_'.slots_[s].rx_buf_ = pool_.slots_[s].rx_buf_
          /\ used_space(pool_'.slots_[s].tx_buf_) <= used_space(pool_.slots_[s].tx_buf_)
          /\ hooks' = hooks
          /\ \/ pool_'.slots_[s].socket_state_ = pool_.slots_[s].socket_state_
             \/ /\ loop.pc = "oflush"
                /\ SendFails
                /\ pool_'.slots_[s].socket_state_ = "Aborting"]_vars

\* handle_events has returned from a write-only event whose flush sent bytes,
\* leaving in RX the bytes the protocol had not consumed and in the socket the
\* bytes never asked for
C29_Witness ==
  /\ loop.pc = "post"
  /\ WriteOnly(loop.event_mask)
  /\ loop.nsent > 0
  /\ ~empty(pool_.slots_[loop.channel].rx_buf_)
  /\ pool_.slots_[loop.channel].socket_state_ = "Running"
  /\ kern.sock[loop.client_fd].inq # <<>>

\* on_channel_event dispatches an event whose mask has the readiness-error bit
ErrorEventStep == loop.pc = "dispatch" /\ "EPOLLERR" \in loop'.event_mask

\* the loop thread moves on after handle_events returned from such an event
AfterErrorEventStep == loop.pc = "post" /\ "EPOLLERR" \in loop.event_mask /\ loop' # loop

\* C30: when on_channel_event receives a mask with the readiness-error bit the
\* channel becomes Aborting and on_error is fired, no recv, on_read or send is
\* performed for that event, and the reactor closes the channel within the same
\* dispatch: it is no longer in the pool when the next event is processed.
C30_ErrorEvent ==
  [][/\ ErrorEventStep =>
          LET s == loop'.channel
          IN /\ loop'.pc = "post"
             /\ pool_'.slots_[s].socket_state_ = "Aborting"
             /\ hooks'.on_error = hooks.on_error + 1
             /\ pool_'.slots_[s].rx_buf_ = pool_.slots_[s].rx_buf_
             /\ pool_'.slots_[s].tx_buf_ = pool_.slots_[s].tx_buf_
             /\ kern'.total_rcvd = kern.total_rcvd
             /\ kern'.total_sent = kern.total_sent
     /\ AfterErrorEventStep =>
          /\ loop'.pc = "dispatch"
          /\ pool_lookup(pool_', loop.client_fd) = Nullptr
          /\ ~kern'.sock[loop.client_fd].open
          /\ hooks'.on_close = hooks.on_close + 1]_vars

\* an error event has been served: the failed connection's channel is gone from
\* the pool, on_error and on_close have fired once each, and the loop thread is
\* back at the batch
C30_Witness ==
  /\ loop.pc = "dispatch"
  /\ hooks.on_error = 1
  /\ hooks.on_close = 1
  /\ kern.nfail = 1
  /\ kern.nconns = 1
  /\ pool_empty(pool_)
  /\ counters["net.socket_error.total"] = 1

(***************************************************************************)
(* CloseSpec: Reactor::close_channel statement by statement.  Two clients  *)
(* have been accepted and a third may wait in the backlog; the channel     *)
(* of one of them, in any state and with any buffer contents, is closed,   *)
(* and the accept loop then runs, accept4 handing out the lowest free      *)
(* descriptor number: the one just closed.                                 *)
(***************************************************************************)
TwoAccepted(backlog) ==
  LET w0 == [pool_ |-> ChannelPool,
             reactor |-> [ReactorFields EXCEPT !.listener_fd_ = ListenFd],
             kern |-> [Kernel EXCEPT !.listen_reg = TRUE, !.backlog = backlog, !.nconns = backlog],
             counters |-> Metrics,
             hooks |-> Hooks]
      w1 == accept_one(w0, lowest_free_fd(w0.kern), TRUE)
  IN accept_one(w1, lowest_free_fd(w1.kern), TRUE)

\* the clients waiting in the backlog while a channel is closed
MaxWaiting == 2

CloseInit ==
  \E rx \in ByteSeqs(RX_BUF_SIZE), tx \in ByteSeqs(TX_BUF_SIZE),
     state \in {"Running", "Draining", "Aborting"}, fd \in ClientFds,
     waiting \in 0..MaxWaiting :
    LET w0 == TwoAccepted(2 + waiting)
        s == pool_lookup(w0.pool_, fd)
        ch0 == w0.pool_.slots_[s]
        ch1 == IF rx = <<>> THEN ch0 ELSE fill_commit(ch0, rx, Len(rx))
        ch2 == tx_send(ch1, tx).ch
    IN /\ s # Nullptr
       /\ pool_ = [w0.pool_ EXCEPT !.slots_[s] = [ch2 EXCEPT !.socket_state_ = state]]
       /\ reactor = w0.reactor
       /\ kern = w0.kern
       /\ counters = Metrics
       /\ hooks = Hooks
       /\ loop = [IdleLoop("close_notify", {}) EXCEPT !.channel = s]
       /\ last_call = NoCall
       /\ RestInit

\* channel->notify_close(); const int client_fd = channel->fd();
CloseNotify ==
  /\ loop.pc = "close_notify"
  /\ Commit(notify_close(W, loop.channel))
  /\ loop' = [loop EXCEPT !.pc = "close_del", !.client_fd = pool_.slots_[loop.channel].fd_]
  /\ UNCHANGED <<last_call, rest>>

\* epoll_ctl(epoll_fd_, EPOLL_CTL_DEL, client_fd, &ev)
CloseEpollDel ==
  /\ loop.pc = "close_del"
  /\ Commit(close_epoll_del(W, loop.client_fd))
  /\ loop' = [loop EXCEPT !.pc = "close_detach"]
  /\ UNCHANGED <<last_call, rest>>

\* channel->detach();
CloseDetach ==
  /\ loop.pc = "close_detach"
  /\ Commit(close_detach(W, loop.channel))
  /\ loop' = [loop EXCEPT !.pc = "close_release"]
  /\ UNCHANGED <<last_call, rest>>

\* pool_.release(client_fd);
CloseRelease ==
  /\ loop.pc = "close_release"
  /\ Commit(close_release(W, loop.client_fd))
  /\ loop' = [loop EXCEPT !.pc = "close_fd"]
  /\ UNCHANGED <<last_call, rest>>

\* ::close(client_fd); the reactor goes on, here with the accept loop
CloseFd ==
  /\ loop.pc = "close_fd"
  /\ Commit(close_fd(W, loop.client_fd))
  /\ loop' = IdleLoop("accept", {})
  /\ UNCHANGED <<last_call, rest>>

CloseNext ==
  \/ CloseNotify \/ CloseEpollDel \/ CloseDetach \/ CloseRelease \/ CloseFd
  \/ AcceptStep

CloseSpec == CloseInit /\ [][CloseNext]_vars

\* a slot is referenced by the fd -> handle map
Referenced(s) == \E fd \in PoolFds : pool_lookup(pool_, fd) = s

\* what each statement of close_channel finds done when it starts
CloseOrder ==
  LET ch == pool_.slots_[loop.channel]
      fd == loop.client_fd
  IN /\ loop.pc = "close_notify" =>
          ch.socket_state_ # "Closed" /\ pool_lookup(pool_, ch.fd_) = loop.channel
     /\ loop.pc \in {"close_del", "close_detach"} =>
          /\ ch.socket_state_ # "Closed" /\ ch.fd_ = fd
          /\ pool_lookup(pool_, fd) = loop.channel
          /\ kern.sock[fd].open
     /\ loop.pc = "close_release" =>
          /\ ch.socket_state_ = "Closed" /\ ch.fd_ = NoFd
          /\ pool_lookup(pool_, fd) = loop.channel
          /\ kern.sock[fd].open
     /\ loop.pc = "close_fd" =>
          /\ ch.socket_state_ = "Closed"
          /\ pool_lookup(pool_, fd) = Nullptr
          /\ ~Referenced(loop.channel)
          /\ kern.sock[fd].open

\* a descriptor number that accept4 may hand out has no pool entry
NoStaleEntry == \A fd \in ClientFds : ~kern.sock[fd].open => pool_lookup(pool_, fd) = Nullptr

\* C31: for every channel the reactor closes, on_close is invoked exactly once
\* while the channel is still attached, then the channel is detached, its pool
\* entry is erased, and only after that the descriptor is closed; no hook runs
\* on the slot again until a later attach, and a newly accepted descriptor
\* with the same number never collides with a live pool entry.
C31_CloseOrder ==
  /\ [](CloseOrder /\ NoStaleEntry)
  /\ [][/\ loop.pc = "close_notify" =>
             /\ hooks'.on_close = hooks.on_close + 1
             /\ hooks'.on_error = hooks.on_error
             /\ pool_' = pool_
        /\ loop.pc \in {"close_del", "close_detach", "close_release", "close_fd"} =>
             hooks' = hooks
        /\ loop.pc = "close_fd" =>
             ~kern'.sock[loop.client_fd].open /\ loop'.pc = "accept"
        /\ (loop.pc = "accept" /\ hooks' # hooks) =>
             /\ kern'.backlog < kern.backlog
             /\ hooks'.on_close = hooks.on_close + 1
             /\ hooks'.on_error = hooks.on_error]_vars

\* a channel was closed, on_close having run once, and the waiting client was
\* then accepted on the descriptor number just closed: both numbers are again
\* in the pool, on live channels
C31_Witness ==
  /\ loop.pc = "dispatch"
  /\ hooks.on_close = 1
  /\ kern.nconns = 3
  /\ kern.backlog = 0
  /\ \A fd \in ClientFds :
       /\ kern.sock[fd].open
       /\ pool_lookup(pool_, fd) # Nullptr
       /\ pool_.slots_[pool_lookup(pool_, fd)].socket_state_ = "Running"
       /\ pool_.slots_[pool_lookup(pool_, fd)].fd_ = fd

(***************************************************************************)
(* ShutdownSpec: a shutdown signal reaches a reactor whose one channel may *)
(* hold unprocessed input in RX and unsent output in TX (queued by its     *)
(* protocol through ChannelIO), the peer having read or not.  The batch    *)
(* being dispatched holds the signal's event and, when another client is   *)
(* waiting in the backlog, the listener's event, and it may hold what the  *)
(* client's socket has to report: they are served in any order.            *)
(***************************************************************************)
ShutdownInit ==
  \E rx \in ByteSeqs(RX_BUF_SIZE), tx \in ByteSeqs(TX_BUF_SIZE), eof \in BOOLEAN,
     outn \in 0..SndCap, waiting \in 0..1, reported \in BOOLEAN :
    LET w0 == Accepted(EventFd)
        s == pool_lookup(w0.pool_, EventFd)
        ch0 == w0.pool_.slots_[s]
        ch1 == IF rx = <<>> THEN ch0 ELSE fill_commit(ch0, rx, Len(rx))
        ch2 == tx_send(ch1, tx).ch
        ch3 == IF eof THEN fill_eof(ch2) ELSE ch2
        k == [w0.kern EXCEPT !.sock[EventFd].fin = eof,
                             !.sock[EventFd].outn = outn,
                             !.interest[EventFd].events =
                                desired_events(ch3) \cup {"EPOLLET", "EPOLLRDHUP"},
                             !.ready = {},
                             !.backlog = waiting,
                             !.nconns = 1 + waiting,
                             !.sig_pending = Signals,
                             !.nsignals = 1]
    IN /\ ~should_close(ch3)
       /\ reported => revents(k, EventFd) # {}
       /\ pool_ = [w0.pool_ EXCEPT !.slots_[s] = ch3]
       /\ reactor = w0.reactor
       /\ kern = k
       /\ counters = Metrics
       /\ hooks = Hooks
       /\ loop = IdleLoop("dispatch",
                          {[fd |-> SignalFd, events |-> {"EPOLLIN"}]} \cup
                          (IF waiting > 0 THEN {[fd |-> ListenFd, events |-> {"EPOLLIN"}]}
                           ELSE {}) \cup
                          (IF reported
                           THEN {[fd |-> EventFd, events |-> revents(k, EventFd)]}
                           ELSE {}))
       /\ last_call = NoCall
       /\ RestInit

ShutdownNext ==
  \/ PollWait \/ Run
  \/ OnChannelEvent \/ FillStep \/ FlushStep \/ HandleEventsTail \/ AfterHandleEvents
  \/ OnListenerEvent \/ AcceptStep
  \/ OnWakeupEvent \/ OnSignalEvent \/ SignalRead \/ OnUnknownEvent
  \/ \E fd \in ClientFds : PeerRead(fd)

ShutdownSpec == ShutdownInit /\ [][ShutdownNext]_vars

\* the step is the first request_shutdown, from its call to its return
FirstShutdown == ~reactor.shutting_down_ /\ reactor'.shutting_down_

\* the channels in the pool
LiveSlots == {pool_lookup(pool_, fd) : fd \in ActiveFds(pool_)}

\* the listener is gone and every channel left is flushing
ShutDown ==
  /\ reactor.listener_fd_ = NoFd
  /\ ~kern.listen_reg
  /\ ~kern.listen_open
  /\ \A s \in LiveSlots :
       /\ pool_.slots_[s].socket_state_ = "Draining"
       /\ ~empty(pool_.slots_[s].tx_buf_)

\* C32: immediately after the first request_shutdown returns the listener is
\* unregistered and closed (listener_fd_ is -1), no live channel is Running,
\* every channel still in the pool is Draining with a non-empty TX buffer, and
\* from then on no new connection is accepted or attached, even if a listener
\* event is still pending in the current batch.
C32_AfterShutdown ==
  [][/\ FirstShutdown => ShutDown'
     /\ reactor.shutting_down_ =>
          /\ reactor'.shutting_down_
          /\ reactor'.listener_fd_ = NoFd
          /\ ActiveFds(pool_') \subseteq ActiveFds(pool_)
          /\ \A fd \in ClientFds : kern'.sock[fd].open => kern.sock[fd].open
          /\ loop'.pc # "accept"]_vars

\* request_shutdown has just returned: the client's channel, which was Running,
\* is still in the pool, Draining with unsent bytes in TX, and the batch still
\* holds the listener's event, raised by a client that is waiting to be accepted
C32_Witness ==
  /\ reactor.shutting_down_
  /\ reactor.listener_fd_ = NoFd
  /\ loop.pc = "sigread"
  /\ \E e \in loop.batch : e.fd = ListenFd
  /\ LiveSlots # {}
  /\ ShutDown
  /\ kern.sock[EventFd].shut_rd

(***************************************************************************)
(* A failed registration after accept4, checked under CloseSpec: a channel *)
(* has just been closed, the other one is live, and up to MaxWaiting       *)
(* clients wait in the backlog.                                            *)
(***************************************************************************)
\* the descriptor the next accept4 returns and the slot acquire hands out for it
AcceptFd == lowest_free_fd(kern)

AcceptSlot == pool_acquire(pool_, AcceptFd).channel

\* the step accepts a connection and EPOLL_CTL_ADD fails for it: no other step
\* takes a connection from the backlog, and a successful EPOLL_CTL_ADD leaves
\* the descriptor registered
FailedAdd ==
  /\ loop.pc = "accept"
  /\ kern'.backlog < kern.backlog
  /\ ~kern'.interest[AcceptFd].reg

SlotIsFree(P, s) == \E i \in 1..Len(P.free_stack_[s[1]]) : P.free_stack_[s[1]][i] = s[2]

\* C33: when EPOLL_CTL_ADD fails for a just-accepted descriptor the channel goes
\* through close_channel: on_close is notified once, the channel is detached and
\* released and the descriptor closed, so lookup(fd) is none and the slot is
\* free and Closed; no other channel, pool entry, socket or registration
\* changes, and the accept loop goes on with the next pending connection.
C33_FailedAdd ==
  [][FailedAdd =>
       /\ hooks'.on_close = hooks.on_close + 1
       /\ hooks'.on_error = hooks.on_error
       /\ pool_lookup(pool_', AcceptFd) = Nullptr
       /\ pool_'.slots_[AcceptSlot].socket_state_ = "Closed"
       /\ pool_'.slots_[AcceptSlot].fd_ = NoFd
       /\ SlotIsFree(pool_', AcceptSlot)
       /\ ~kern'.sock[AcceptFd].open
       /\ ~kern'.interest[AcceptFd].reg
       /\ \A s \in SlotIds \ {AcceptSlot} : pool_'.slots_[s] = pool_.slots_[s]
       /\ \A fd \in PoolFds : pool_'.active_[fd] = pool_.active_[fd]
       /\ \A fd \in ClientFds \ {AcceptFd} :
            /\ kern'.sock[fd] = kern.sock[fd]
            /\ kern'.interest[fd] = kern.interest[fd]
       /\ loop' = loop
       /\ kern'.backlog = kern.backlog - 1
       /\ kern'.listen_reg = kern.listen_reg
       /\ reactor' = reactor]_vars

\* both hooks of this run have been close notifications, the second one for the
\* failed registration; the other channel is live and a client is still waiting
C33_Witness ==
  /\ loop.pc = "accept"
  /\ hooks.on_close = 2
  /\ kern.backlog = 1
  /\ kern.nconns = 2 + MaxWaiting
  /\ \E fd \in ClientFds :
       /\ ActiveFds(pool_) = {fd}
       /\ pool_.slots_[pool_lookup(pool_, fd)].socket_state_ = "Running"
       /\ \A g \in ClientFds \ {fd} : ~kern.sock[g].open

(***************************************************************************)
(* ErrorSpec: the dispatches of EventsSpec, the connection failing with    *)
(* any of the errors handle_error_event tells apart, or with another one.  *)
(***************************************************************************)
CountedErrnos == {"ECONNRESET", "ETIMEDOUT", "EPIPE", "ENETDOWN"}

\* a connection fails with error e: the peer is gone, both directions are shut
ConnFailWith(fd, e) ==
  /\ Live(fd)
  /\ kern.nfail < MaxConnFail
  /\ kern' = k_wake([kern EXCEPT !.sock[fd].dead = TRUE,
                                 !.sock[fd].so_error = e,
                                 !.sock[fd].shut_rd = TRUE,
                                 !.sock[fd].shut_wr = TRUE,
                                 !.nfail = @ + 1],
                    fd, EventFlags)
  /\ UNCHANGED <<pool_, reactor, counters, hooks, loop, last_call, rest>>

ErrorNext ==
  \/ OnChannelEvent \/ FillStep \/ FlushStep \/ HandleEventsTail \/ AfterHandleEvents
  \/ \E fd \in ClientFds : PeerRead(fd)
  \/ \E fd \in ClientFds, e \in CountedErrnos \cup SockErrnos : ConnFailWith(fd, e)

ErrorSpec == EventsInit /\ [][ErrorNext]_vars

SpecificErrorKeys ==
  {"net.socket_error.econnreset", "net.socket_error.etimedout",
   "net.socket_error.epipe", "net.socket_error.enetdown", "net.socket_error.other"}

SocketErrorTotal == counters["net.socket_error.total"]

SocketErrorSum ==
  counters["net.socket_error.econnreset"] + counters["net.socket_error.etimedout"]
    + counters["net.socket_error.epipe"] + counters["net.socket_error.enetdown"]
    + counters["net.socket_error.other"]

\* the counter that bears the errno's name, or other when there is none
ErrnoCounter(err) ==
  IF err = "ECONNRESET" THEN "net.socket_error.econnreset"
  ELSE IF err = "ETIMEDOUT" THEN "net.socket_error.etimedout"
  ELSE IF err = "EPIPE" THEN "net.socket_error.epipe"
  ELSE IF err = "ENETDOWN" THEN "net.socket_error.enetdown"
  ELSE "net.socket_error.other"

\* the step retrieves a pending error with getsockopt(SO_ERROR): it is the one
\* that hands the error to the protocol or counts it
ErrorRetrieved ==
  \/ hooks'.on_error # hooks.on_error
  \/ \E K \in SpecificErrorKeys \cup {"net.socket_error.total"} : counters'[K] # counters[K]

\* C34: each retrieval of a pending socket error adds one to
\* net.socket_error.total and one to exactly one of the five specific counters,
\* the one the errno of a failed connection selects, so the total is the sum of
\* the five in every reachable state.
C34_SocketErrorTotal ==
  /\ [](SocketErrorTotal = SocketErrorSum)
  /\ [][ErrorRetrieved =>
          /\ hooks'.on_error = hooks.on_error + 1
          /\ SocketErrorTotal' = SocketErrorTotal + 1
          /\ \E fd \in ClientFds :
               /\ kern.sock[fd].so_error # NoErr
               /\ kern'.sock[fd].so_error = NoErr
               /\ counters'[ErrnoCounter(kern.sock[fd].so_error)] =
                    counters[ErrnoCounter(kern.sock[fd].so_error)] + 1
               /\ \A K \in SpecificErrorKeys \ {ErrnoCounter(kern.sock[fd].so_error)} :
                    counters'[K] = counters[K]]_vars

\* a connection failed with ETIMEDOUT and the error has been retrieved and counted
C34_Witness ==
  /\ SocketErrorTotal = 1
  /\ counters["net.socket_error.etimedout"] = 1
  /\ hooks.on_error = 1

(***************************************************************************)
(* WaitSpec: the session of SessionSpec (no fairness) with an epoll_wait   *)
(* that may fail, at most MaxWaitFail times.                               *)
(***************************************************************************)
MaxWaitFail == 2

\* EINTR, and a failure that is not an interruption
WaitErrnos == {"EINTR", "EBADF"}

\* poll_once, epoll_wait returning -1: the do-while calls it again on EINTR;
\* otherwise nevents is -1, the for loop over the events has nothing to do and
\* poll_once returns to run()
WaitFail ==
  /\ loop.pc = "wait"
  /\ kern.nwaitfail < MaxWaitFail
  /\ \E errno \in WaitErrnos :
       /\ kern' = [kern EXCEPT !.nwaitfail = @ + 1, !.wait_errno = errno]
       /\ loop' = IF errno = "EINTR"
                  THEN loop
                  ELSE [loop EXCEPT !.pc = "dispatch", !.batch = {}]
  /\ UNCHANGED <<pool_, reactor, counters, hooks, last_call, rest>>

WaitNext == SessionNext \/ WaitFail

WaitSpec == Init /\ [][WaitNext]_vars

\* the step is an epoll_wait that returns -1
WaitFailed == kern'.nwaitfail # kern.nwaitfail

\* C35: in poll_once a wait interrupted by EINTR is retried, and any other
\* failure of the wait is fatal: the process terminates, the run loop does not
\* go on to call the wait again.
C35_WaitFailureFatal ==
  [][WaitFailed =>
       IF kern'.wait_errno = "EINTR"
       THEN loop' = loop
       ELSE loop'.pc = "aborted"]_vars

\* the wait interrupted by EINTR is retried: the thread is still in poll_once,
\* waiting, and nothing else has changed
EintrRetried ==
  [][WaitFailed /\ kern'.wait_errno = "EINTR" =>
       /\ loop' = loop
       /\ loop.pc = "wait"
       /\ UNCHANGED <<pool_, reactor, counters, hooks>>]_vars

\* epoll_wait has failed twice with EBADF and the loop thread, with a live
\* channel, is about to call it a third time
C35_Witness ==
  /\ kern.nwaitfail = MaxWaitFail
  /\ kern.wait_errno = "EBADF"
  /\ loop.pc = "wait"
  /\ ActiveFds(pool_) # {}

(***************************************************************************)
(* The non-full list of ChannelPool, checked under PoolSpec.               *)
(***************************************************************************)
\* how often chunk c is in nonfull_chunks_
NonfullCount(P, c) == Cardinality({i \in 1..Len(P.nonfull_chunks_) : P.nonfull_chunks_[i] = c})

\* an allocated chunk with a free slot is in the list once, any other chunk not at all
NonfullExact(P) ==
  \A c \in 1..MaxChunks :
    NonfullCount(P, c) = IF c <= P.nchunks /\ ~chunk_full(P, c) THEN 1 ELSE 0

\* C36: after any sequence of acquire and release calls, a failed duplicate
\* acquire included, a chunk is in the non-full list exactly once if it has a
\* free slot and not at all if it is full; so acquire takes its slot from a
\* chunk that has a free slot, and a chunk is allocated only when every
\* existing chunk is full.
C36_NonfullList ==
  /\ [](NonfullExact(pool_))
  /\ [][/\ pool_'.nchunks > pool_.nchunks =>
             /\ pool_call'.op = "acquire"
             /\ pool_'.nchunks = pool_.nchunks + 1
             /\ \A c \in 1..pool_.nchunks : chunk_full(pool_, c)
        /\ (pool_call'.op = "acquire" /\ pool_call'.result # Nullptr /\ PoolNext) =>
             LET c == pool_call'.result[1]
             IN /\ c \in 1..pool_'.nchunks
                /\ (c <= pool_.nchunks) =>
                     /\ ~chunk_full(pool_, c)
                     /\ SlotIsFree(pool_, pool_call'.result)
                /\ ~SlotIsFree(pool_', pool_call'.result)]_vars

\* a duplicate acquire found every chunk full and allocated one it did not
\* use: the new chunk is in the list with all its slots free
C36_Witness ==
  /\ pool_call.op = "acquire"
  /\ pool_call.result = Nullptr
  /\ pool_.nchunks = 2
  /\ chunk_full(pool_, 1)
  /\ Len(pool_.free_stack_[2]) = CHUNK_SIZE
  /\ pool_.nonfull_chunks_ = <<2>>

(***************************************************************************)
(* The pool as the readiness wait and the dispatches find it.              *)
(***************************************************************************)
\* a channel of the pool that is due for closing
Lingering == \E s \in LiveSlots : should_close(pool_.slots_[s])

\* C37: whenever the reactor is about to block in the readiness wait, and when
\* run() returns, no live channel satisfies should_close(): a channel that became
\* Aborting, or Draining with an empty TX buffer, was closed within the
\* dispatch that made it so or by the sweep of request_shutdown.
C37_NoLingering == loop.pc \in {"wait", "returned"} => ~Lingering

\* the reactor is about to block after a dispatch that found the peer's
\* half-close: the channel became Draining with TX empty and was closed at
\* once, while the reactor still listens
C37_Witness ==
  /\ loop.pc = "wait"
  /\ hooks.on_close = 1
  /\ hooks.on_error = 0
  /\ ~reactor.shutting_down_
  /\ pool_empty(pool_)
  /\ kern.nconns = 1
  /\ kern.backlog = 0
  /\ kern.nfail = 0

\* every entry of the pool map leads to a channel attached to that descriptor,
\* and every slot the map does not reference is Closed with fd -1
PoolConsistent ==
  /\ \A fd \in PoolFds :
       pool_lookup(pool_, fd) # Nullptr =>
         /\ pool_.slots_[pool_lookup(pool_, fd)].fd_ = fd
         /\ pool_.slots_[pool_lookup(pool_, fd)].socket_state_ # "Closed"
  /\ \A s \in SlotIds :
       ~Referenced(s) =>
         /\ pool_.slots_[s].socket_state_ = "Closed"
         /\ pool_.slots_[s].fd_ = NoFd

BetweenDispatches == loop.pc \in {"dispatch", "wait", "returned"}

\* an event of the batch whose descriptor has been closed since the wait
\* returned it
StaleEvent(e) == e \in loop.batch /\ e.fd \in ClientFds /\ ~kern.sock[e.fd].open

\* the step hands an event to handle_events of the channel loop'.channel
HandleEventsCalled == loop.pc = "dispatch" /\ loop'.channel # Nullptr

\* C38: between dispatches every pool entry fd -> channel has channel.fd() = fd
\* and a state other than Closed, and every unreferenced slot is Closed with
\* fd -1; handle_events is never invoked on a Closed channel; and an event of
\* the batch whose descriptor was closed earlier in the batch stays without a
\* channel (the descriptor number is not handed out again before the event is
\* reached) and is dropped without touching any channel.
C38_PoolConsistent ==
  /\ [](BetweenDispatches => PoolConsistent /\ NoStaleEntry)
  /\ [][/\ HandleEventsCalled =>
             /\ pool_.slots_[loop'.channel].socket_state_ # "Closed"
             /\ pool_.slots_[loop'.channel].fd_ = loop'.client_fd
             /\ kern.sock[loop'.client_fd].open
        /\ \A e \in loop.batch :
             StaleEvent(e) =>
               \/ e \in loop'.batch /\ ~kern'.sock[e.fd].open
               \/ /\ e \notin loop'.batch
                  /\ loop'.pc = "dispatch"
                  /\ loop'.channel = Nullptr
                  /\ UNCHANGED <<pool_, reactor, kern, counters, hooks>>]_vars

\* the signal's event was served before the client's: request_shutdown closed
\* the channel, whose event is still in the batch, a second client having
\* connected
C38_Witness ==
  /\ loop.pc = "dispatch"
  /\ reactor.shutting_down_
  /\ hooks.on_close = 1
  /\ kern.nconns = 2
  /\ \E e \in loop.batch : StaleEvent(e) /\ pool_lookup(pool_, e.fd) = Nullptr

(***************************************************************************)
(* The byte stream of an Echo channel, checked under EchoSpec: the peer    *)
(* writes LongBytes distinct bytes, more than RX and TX hold together.     *)
(***************************************************************************)
\* what the channel of fd holds: the bytes queued in TX, then those still in RX
Held(fd) ==
  IF pool_lookup(pool_, fd) = Nullptr
  THEN <<>>
  ELSE readable_span(ChannelOf(fd).tx_buf_, capacity(ChannelOf(fd).tx_buf_))
         \o rx_span(ChannelOf(fd))

\* C39: with the Echo protocol the bytes a channel has passed to send are at
\* every moment a prefix of the bytes it has received since attach: in order,
\* none duplicated, none invented.  While the channel is live the bytes received
\* are those sent followed by those held in TX and in RX.
C39_EchoPrefix ==
  \A fd \in ClientFds :
    /\ IsPrefix(kern.sock[fd].sent, kern.sock[fd].rcvd)
    /\ (kern.sock[fd].open /\ pool_lookup(pool_, fd) # Nullptr) =>
         kern.sock[fd].rcvd = kern.sock[fd].sent \o Held(fd)

\* a flush is held up by a peer that does not read: three bytes were sent, more
\* than TX holds, a fourth is queued in TX, and send has returned EAGAIN
C39_Witness ==
  \E fd \in ClientFds :
    /\ loop.would_block
    /\ Len(kern.sock[fd].rcvd) = LongBytes
    /\ Len(kern.sock[fd].sent) = LongBytes - 1
    /\ ~empty(ChannelOf(fd).tx_buf_)

(***************************************************************************)
(* The registered interest, checked under ShutdownSpec, where a channel    *)
(* can wait with unsent bytes in TX.                                       *)
(***************************************************************************)
FixedBits == {"EPOLLET", "EPOLLRDHUP"}

\* the interest registered for the channel in slot s
InterestOf(P, k, s) == k.interest[P.slots_[s].fd_]

\* the registration covers what the channel wants now
Covered(s) ==
  /\ InterestOf(pool_, kern, s).reg
  /\ desired_events(pool_.slots_[s]) \cup FixedBits \subseteq InterestOf(pool_, kern, s).events
  /\ can_write(pool_.slots_[s]) => "EPOLLOUT" \in InterestOf(pool_, kern, s).events

\* the registration is exactly what the channel in slot s wants after the step
ExactAfter(s) ==
  /\ InterestOf(pool_', kern', s).reg
  /\ InterestOf(pool_', kern', s).events = desired_events(pool_'.slots_[s]) \cup FixedBits

\* C40: whenever the reactor is about to block in the readiness wait (no
\* epoll_ctl call of a live channel having failed) the interest registered for
\* each live channel contains its current desired_events() and the
\* edge-triggered and peer-hang-up bits, so a channel with pending TX is
\* registered for write readiness; an accept and a channel dispatch leave it
\* equal to desired_events() plus the two bits, and before request_shutdown it
\* is equal at every wait.
C40_InterestCovers ==
  /\ [](loop.pc = "wait" =>
          \A s \in LiveSlots :
            /\ Covered(s)
            /\ ~reactor.shutting_down_ =>
                 InterestOf(pool_, kern, s).events =
                   desired_events(pool_.slots_[s]) \cup FixedBits)
  /\ [][/\ (/\ loop.pc = "post" /\ loop'.pc = "dispatch"
            /\ pool_lookup(pool_', loop.client_fd) # Nullptr) =>
             ExactAfter(loop.channel)
        /\ (loop.pc = "accept" /\ ActiveFds(pool_') # ActiveFds(pool_)) =>
             \A fd \in ActiveFds(pool_') \ ActiveFds(pool_) :
               ExactAfter(pool_lookup(pool_', fd))]_vars

\* after request_shutdown the reactor is about to block with a Draining channel
\* that has unsent bytes in TX: it wants EPOLLOUT only and is still registered
\* for EPOLLIN and EPOLLOUT
C40_Witness ==
  /\ loop.pc = "wait"
  /\ reactor.shutting_down_
  /\ \E s \in LiveSlots :
       /\ pool_.slots_[s].socket_state_ = "Draining"
       /\ desired_events(pool_.slots_[s]) = {"EPOLLOUT"}
       /\ InterestOf(pool_, kern, s).events = {"EPOLLIN", "EPOLLOUT"} \cup FixedBits

====
